---- MODULE Spec2Model ----
(***************************************************************************)
(* Engram daemon: the durable memory store (MemoryStore over the           *)
(* ExperienceLog of one project), its latest-wins comparator and the       *)
(* replay of the log.                                                      *)
(*                                                                         *)
(* Strings are sequences of byte values (0 is the space character), so     *)
(* that the byte-wise lexicographic order of Rust's String is computed     *)
(* and not assumed.  Option<String> is a record with a `some` flag.        *)
(***************************************************************************)
EXTENDS Integers, Sequences, FiniteSets, TLC

VARIABLES
    log0,       \* the lines experience.jsonl held when the store was constructed
    log,        \* experience.jsonl of the project: the sequence of its lines
    durable,    \* number of leading lines of the file covered by a sync_all
    index,      \* ProjectIndex: [synced, entries (id -> MemoryEntry)]
    gate,       \* ProjectMemory.gate: the task holding it, or NoTask
    pc,         \* position of every request task
    req,        \* the request every task is running (or ran last)
    written,    \* the version a task serialized for its append
    resp,       \* the result of the last finished request of a task
    uuids,      \* number of ids Uuid::new_v4 has handed out
    nops,       \* number of requests started
    args,       \* inputs of the pure-function specifications
    ret,        \* outputs of the pure-function specifications
    hresp,      \* the Response DaemonHandler::handle produced without the store
    spawned,    \* the work the handler passed to tokio::spawn
    manifests,  \* the canonical paths whose storage dir holds manifest.json
    projects,   \* ProjectManager.projects: the LruCache, most recently used first
    max_projects, \* DaemonConfig.max_projects
    loading,    \* get_project between its cache lookup and its cache.put
    pid_file,   \* content of DaemonConfig.pid_file, or NoFile
    socket_path, \* the daemon bound to DaemonConfig.socket_path, or NoFile
    daemon,     \* position of every daemon process
    conn,       \* every accepted connection of the IpcServer
    memories,   \* MemoryStore.projects: project hash -> the Arc<ProjectMemory> it maps to
    arcs,       \* every ProjectMemory ever allocated: [gate, index]
    files,      \* experience.jsonl of every project dir: project hash -> lines
    project,    \* per task: the project_path of its call and the Arc it obtained
    outcome,    \* per task: its last ProjectManager call, its path and its result
    manifest_saves, \* per canonical path: how often save_manifest wrote manifest.json
    recent          \* ProjectManager.cache: its keys by last use, the latest first

memoryVars == <<memories, arcs, files, project>>
callVars == <<outcome, manifest_saves, recent>>
storeVars == <<log0, memoryVars, callVars, log, durable, index, gate, pc, req, written, resp, uuids, nops>>
pureVars == <<args, ret>>
handlerVars == <<hresp, spawned>>
managerVars == <<manifests, projects, max_projects, loading>>
daemonVars == <<pid_file, socket_path, daemon>>
sysVars == <<spawned, managerVars, daemonVars, conn>>

vars == <<storeVars, pureVars, handlerVars, managerVars, daemonVars, conn>>

-----------------------------------------------------------------------------
(* Bounds *)

MaxOps == 3         \* requests started in one behaviour
MaxNow == 3         \* largest wall-clock reading
MaxDiff == 1        \* fields in which a comparator input differs from BaseEntry
MaxFoldLen == 3     \* lines of a replayed log
MaxProjects == 2    \* largest configured max_projects

-----------------------------------------------------------------------------
(* Values *)

Tasks == {1, 2}
NoTask == 0

\* Utc::now().timestamp(): the wall clock is an input, it may step backwards.
Clock == {1, MaxNow}

\* i64::MAX, scaled: above every clock reading plus every increment a
\* behaviour can make, so that only a client-supplied value reaches it.
I64_MAX == MaxNow + MaxOps + 2

\* usize::MAX, scaled to the largest 32-bit integer: above every log length.
usize_MAX == 2147483647

\* StorageOptions.max_experience_size, scaled: the file length is measured
\* in lines, every serialized record being one unit long.
max_experience_size == 2

None == [some |-> FALSE, v |-> <<>>]
Some(s) == [some |-> TRUE, v |-> s]

IdA == <<1>>
IdB == <<2>>
Blank == <<0>>
KindNote == <<1>>
Content1 == <<1>>
Content2 == <<2>>

MemoryEntry(id, kind, content, tags, created_at, updated_at, session_id, subagent_id, deleted) ==
    [id |-> id, kind |-> kind, content |-> content, tags |-> tags,
     created_at |-> created_at, updated_at |-> updated_at,
     session_id |-> session_id, subagent_id |-> subagent_id, deleted |-> deleted]

\* placeholder where no entry is present (Option<MemoryEntry>::None)
NoEntry == MemoryEntry(<<>>, <<>>, <<>>, <<>>, 0, 0, None, None, FALSE)

NoteEntry(id, content, updated_at) ==
    MemoryEntry(id, KindNote, content, <<>>, 1, updated_at, None, None, FALSE)

-----------------------------------------------------------------------------
(* Orderings (std::cmp::Ordering) *)

then_with(first, second) == IF first = "Equal" THEN second ELSE first

cmp_i64(a, b) == IF a < b THEN "Less" ELSE IF a > b THEN "Greater" ELSE "Equal"

cmp_bool(a, b) == IF a = b THEN "Equal" ELSE IF b THEN "Less" ELSE "Greater"

RECURSIVE cmp_str(_, _)
cmp_str(a, b) ==
    IF Len(a) = 0 THEN (IF Len(b) = 0 THEN "Equal" ELSE "Less")
    ELSE IF Len(b) = 0 THEN "Greater"
    ELSE then_with(cmp_i64(Head(a), Head(b)), cmp_str(Tail(a), Tail(b)))

RECURSIVE cmp_vec(_, _)
cmp_vec(a, b) ==
    IF Len(a) = 0 THEN (IF Len(b) = 0 THEN "Equal" ELSE "Less")
    ELSE IF Len(b) = 0 THEN "Greater"
    ELSE then_with(cmp_str(Head(a), Head(b)), cmp_vec(Tail(a), Tail(b)))

cmp_opt(a, b) ==
    IF ~a.some THEN (IF ~b.some THEN "Equal" ELSE "Less")
    ELSE IF ~b.some THEN "Greater"
    ELSE cmp_str(a.v, b.v)

\* a comparator that forgets its last key
compare_entries_short(left, right) ==
    then_with(cmp_i64(left.updated_at, right.updated_at),
    then_with(cmp_i64(left.created_at, right.created_at),
    then_with(cmp_bool(left.deleted, right.deleted),
    then_with(cmp_str(left.id, right.id),
    then_with(cmp_str(left.kind, right.kind),
    then_with(cmp_str(left.content, right.content),
    then_with(cmp_vec(left.tags, right.tags),
              cmp_opt(left.session_id, right.session_id))))))))

compare_entries(left, right) ==
    then_with(cmp_i64(left.updated_at, right.updated_at),
    then_with(cmp_i64(left.created_at, right.created_at),
    then_with(cmp_bool(left.deleted, right.deleted),
    then_with(cmp_str(left.id, right.id),
    then_with(cmp_str(left.kind, right.kind),
    then_with(cmp_str(left.content, right.content),
    then_with(cmp_vec(left.tags, right.tags),
    then_with(cmp_opt(left.session_id, right.session_id),
              cmp_opt(left.subagent_id, right.subagent_id)))))))))

is_ge(o) == o \in {"Equal", "Greater"}

-----------------------------------------------------------------------------
(* The index: HashMap<String, MemoryEntry> as a function on a set of ids *)

EmptyMap == [i \in {} |-> NoEntry]

insert(m, e) == [i \in DOMAIN m \cup {e.id} |-> IF i = e.id THEN e ELSE m[i]]

\* a fold in which the last line read wins
apply_last_write(latest_by_id, candidate) == insert(latest_by_id, candidate)

apply_latest(latest_by_id, candidate) ==
    IF candidate.id \in DOMAIN latest_by_id
       /\ is_ge(compare_entries(latest_by_id[candidate.id], candidate))
    THEN latest_by_id
    ELSE insert(latest_by_id, candidate)

stats_for_entries(entries) ==
    LET tombstones == Cardinality({i \in DOMAIN entries : entries[i].deleted})
    IN [total_entries |-> Cardinality(DOMAIN entries),
        live_entries |-> Cardinality(DOMAIN entries) - tombstones,
        tombstones |-> tombstones]

-----------------------------------------------------------------------------
(* The log file: lines, serialization, the scan *)

\* serde_json::to_string of a MemoryEntry, and of a grafted Experience
to_string(entry) == [schema |-> "MemoryEntry", entry |-> entry]
ExperienceLine == [schema |-> "Experience", entry |-> NoEntry]

\* serde_json::from_str::<MemoryEntry>: a line of another schema is an Err
from_str_ok(line) == line.schema = "MemoryEntry"
from_str(line) == line.entry

Reverse(s) == [i \in 1..Len(s) |-> s[Len(s) + 1 - i]]

\* read_recent: walk the lines backwards, keep what parses, stop at limit
RECURSIVE walk_back(_, _, _, _)
walk_back(lines, i, entries_rev, limit) ==
    IF i = 0 THEN entries_rev
    ELSE IF from_str_ok(lines[i])
         THEN LET pushed == Append(entries_rev, from_str(lines[i]))
              IN IF Len(pushed) >= limit THEN pushed
                 ELSE walk_back(lines, i - 1, pushed, limit)
         ELSE walk_back(lines, i - 1, entries_rev, limit)

\* a read that takes the last `limit` lines and then drops what fails to parse
read_recent_window(lines, limit) ==
    LET lo == IF Len(lines) - limit + 1 < 1 THEN 1 ELSE Len(lines) - limit + 1
        kept == SelectSeq(SubSeq(lines, lo, Len(lines)), from_str_ok)
    IN IF limit = 0 THEN <<>> ELSE [j \in 1..Len(kept) |-> from_str(kept[j])]

read_recent(lines, limit) ==
    IF limit = 0 THEN <<>>
    ELSE Reverse(walk_back(lines, Len(lines), <<>>, limit))

load_all_experiences(lines) == read_recent(lines, usize_MAX)

RECURSIVE fold_latest(_, _)
fold_latest(latest_by_id, all_entries) ==
    IF Len(all_entries) = 0 THEN latest_by_id
    ELSE fold_latest(apply_latest(latest_by_id, Head(all_entries)), Tail(all_entries))

rebuild_from_storage(lines) == fold_latest(EmptyMap, load_all_experiences(lines))

\* ExperienceLog::should_rotate / rotate / append_raw_inner on the file
should_rotate(lines) == Len(lines) >= max_experience_size

append_raw_inner(lines, line) ==
    IF should_rotate(lines) THEN <<line>> ELSE Append(lines, line)

-----------------------------------------------------------------------------
(* Reads of the index *)

get_latest(entries, id) == IF id \in DOMAIN entries THEN entries[id] ELSE NoEntry

get(entries, id) ==
    IF id \in DOMAIN entries /\ ~entries[id].deleted THEN entries[id] ELSE NoEntry

\* sort_by(compare_entries): insertion of the live entries in comparator order
RECURSIVE sort_entries(_)
sort_entries(S) ==
    IF S = {} THEN <<>>
    ELSE LET least == CHOOSE e \in S : \A f \in S : compare_entries(e, f) \in {"Less", "Equal"}
         IN <<least>> \o sort_entries(S \ {least})

\* a list that keeps the first `limit` entries of the sorted vector
list_head(entries, limit) ==
    IF limit = 0 THEN <<>>
    ELSE LET sorted == sort_entries({entries[i] : i \in {j \in DOMAIN entries : ~entries[j].deleted}})
         IN IF Len(sorted) > limit THEN SubSeq(sorted, 1, limit) ELSE sorted

list(entries, limit) ==
    IF limit = 0 THEN <<>>
    ELSE LET sorted == sort_entries({entries[i] : i \in {j \in DOMAIN entries : ~entries[j].deleted}})
         IN IF Len(sorted) > limit
            THEN SubSeq(sorted, Len(sorted) - limit + 1, Len(sorted))
            ELSE sorted

-----------------------------------------------------------------------------
(* Requests of the memory store *)

NoneStr == [some |-> FALSE, v |-> <<>>]
NoneVec == [some |-> FALSE, v |-> <<>>]
NoneBool == [some |-> FALSE, v |-> FALSE]
NoneInt == [some |-> FALSE, v |-> 0]

\* engram_ipc::MemoryPatch with every field absent
EmptyPatch ==
    [kind |-> NoneStr, content |-> NoneStr, tags |-> NoneVec,
     session_id |-> NoneStr, subagent_id |-> NoneStr,
     deleted |-> NoneBool, updated_at |-> NoneInt]

PatchContent == [EmptyPatch EXCEPT !.content = [some |-> TRUE, v |-> Content2]]
PatchRevive == [EmptyPatch EXCEPT !.deleted = [some |-> TRUE, v |-> FALSE]]
PatchTime == [EmptyPatch EXCEPT !.updated_at = [some |-> TRUE, v |-> I64_MAX]]

\* inputs of the requests
PutEntries ==
    {NoteEntry(i, c, 1) : i \in {IdA, IdB}, c \in {Content1, Content2}}
    \cup {NoteEntry(IdA, Content1, 2)}
    \cup {[NoteEntry(Blank, Content1, 0) EXCEPT !.created_at = 0]}
Patches == {PatchContent, PatchRevive, PatchTime}
PatchIds == {IdA}

\* the log a store may find when it is constructed
InitLogs == {<<>>, <<to_string(NoteEntry(IdA, Content1, 1))>>}

NoReq == [action |-> "none", given |-> NoEntry, entry |-> NoEntry, id |-> <<>>, patch |-> EmptyPatch]
NoStats == [total_entries |-> 0, live_entries |-> 0, tombstones |-> 0]
NoResp == [status |-> "none", entry |-> NoEntry, stats |-> NoStats]

trim_is_empty(s) == \A i \in 1..Len(s) : s[i] = 0

\* Uuid::new_v4().to_string(): an id no client supplies
new_v4(n) == <<3, n>>

\* an addition that leaves the timestamp of the predecessor as it is
no_add(x, y) == x

saturating_add(x, y) == IF x + y > I64_MAX THEN I64_MAX ELSE x + y

max(a, b) == IF a >= b THEN a ELSE b

validate_entry(entry) ==
    IF trim_is_empty(entry.id) THEN "invalid_entry"
    ELSE IF trim_is_empty(entry.kind) THEN "invalid_entry"
    ELSE IF trim_is_empty(entry.content) THEN "invalid_entry"
    ELSE IF entry.created_at <= 0 THEN "invalid_entry"
    ELSE IF entry.updated_at <= 0 THEN "invalid_entry"
    ELSE "ok"

\* NullableStringPatch of a patch field after the JSON round trip: a None
\* is not serialized, so the key is missing
nullable(opt) == IF opt.some THEN [tag |-> "Value", v |-> opt.v] ELSE [tag |-> "Missing", v |-> <<>>]

is_empty(patch) ==
    /\ ~patch.kind.some /\ ~patch.content.some /\ ~patch.tags.some
    /\ ~patch.session_id.some /\ ~patch.subagent_id.some
    /\ ~patch.deleted.some /\ ~patch.updated_at.some

normalize_patch(patch) ==
    IF is_empty(patch) THEN "invalid_patch"
    ELSE IF patch.kind.some /\ trim_is_empty(patch.kind.v) THEN "invalid_patch"
    ELSE IF patch.content.some /\ trim_is_empty(patch.content.v) THEN "invalid_patch"
    ELSE "ok"

\* MemoryStore::patch, lines 250-286: the version `updated`
patched(current, id, patch, now) ==
    [current EXCEPT
        !.kind = IF patch.kind.some THEN patch.kind.v ELSE @,
        !.content = IF patch.content.some THEN patch.content.v ELSE @,
        !.tags = IF patch.tags.some THEN patch.tags.v ELSE @,
        !.session_id = IF nullable(patch.session_id).tag = "Value" THEN Some(patch.session_id.v) ELSE @,
        !.subagent_id = IF nullable(patch.subagent_id).tag = "Value" THEN Some(patch.subagent_id.v) ELSE @,
        !.deleted = IF patch.deleted.some THEN patch.deleted.v ELSE @,
        !.updated_at = max(IF patch.updated_at.some THEN patch.updated_at.v ELSE now,
                           saturating_add(current.updated_at, 1)),
        !.id = id]

\* a tombstone that drops the content and the tags of the entry it deletes
tombstoned_bare(current, deleted_at, now) ==
    [current EXCEPT
        !.deleted = TRUE,
        !.content = <<>>,
        !.tags = <<>>,
        !.updated_at = max(IF deleted_at.some THEN deleted_at.v ELSE now,
                           saturating_add(current.updated_at, 1))]

\* MemoryStore::delete, lines 324-329: the version `tombstone`
tombstoned(current, deleted_at, now) ==
    [current EXCEPT
        !.deleted = TRUE,
        !.updated_at = max(IF deleted_at.some THEN deleted_at.v ELSE now,
                           saturating_add(current.updated_at, 1))]

\* MemoryStore::put, lines 145-155: the id and the timestamps the server fills
filled(entry, now, n) ==
    [entry EXCEPT
        !.id = IF trim_is_empty(@) THEN new_v4(n) ELSE @,
        !.created_at = IF @ <= 0 THEN now ELSE @,
        !.updated_at = IF @ <= 0 THEN now ELSE @]

-----------------------------------------------------------------------------
(* The memory store of one project, driven by concurrent request tasks *)

\* Response values of DaemonHandler::handle that need no store
NoResponse == [request |-> "none", response |-> "none"]

\* the project path requests name, and a path no request names
NoPath == 0

\* a file that does not exist; `pid` is then without meaning
NoFile == [exists |-> FALSE, pid |-> 0]

Daemons == {1, 2, 3}

\* DaemonConfig::default().max_projects
default_max_projects == 3

\* no request handled, no project loaded, no daemon started, no connection
SystemIdle ==
    /\ hresp = [t \in Tasks |-> NoResponse] /\ spawned = <<>>
    /\ manifests = {} /\ projects = <<>>
    /\ max_projects = default_max_projects
    /\ loading = [t \in Tasks |-> NoPath]
    /\ pid_file = NoFile /\ socket_path = NoFile
    /\ daemon = [d \in Daemons |-> "new"]
    /\ conn = <<>>

\* the store of a project nothing was written to
\* a task that has called no operation of the ProjectManager
NoOutcome == [op |-> "none", cwd |-> NoPath, result |-> "none"]

\* a task that is in no call of the MemoryStore
NoProject == [path |-> NoPath, arc |-> 0]

\* a MemoryStore no project was accessed through
MemoryIdle ==
    /\ outcome = [t \in Tasks |-> NoOutcome]
    /\ manifest_saves = [cwd \in {} |-> 0]
    /\ recent = <<>>
    /\ memories = <<>>
    /\ arcs = <<>>
    /\ files = <<>>
    /\ project = [t \in Tasks |-> NoProject]

StoreIdle ==
    /\ MemoryIdle
    /\ log0 = <<>>
    /\ log = <<>>
    /\ durable = 0
    /\ index = [synced |-> FALSE, entries |-> EmptyMap]
    /\ gate = NoTask
    /\ pc = [t \in Tasks |-> "idle"]
    /\ req = [t \in Tasks |-> NoReq]
    /\ written = [t \in Tasks |-> NoEntry]
    /\ resp = [t \in Tasks |-> NoResp]
    /\ uuids = 0
    /\ nops = 0


Init ==
    /\ log0 \in InitLogs
    /\ log = log0
    /\ durable = Len(log)
    /\ index = [synced |-> FALSE, entries |-> EmptyMap]
    /\ gate = NoTask
    /\ pc = [t \in Tasks |-> "idle"]
    /\ req = [t \in Tasks |-> NoReq]
    /\ written = [t \in Tasks |-> NoEntry]
    /\ resp = [t \in Tasks |-> NoResp]
    /\ uuids = 0
    /\ nops = 0
    /\ args = <<>>
    /\ ret = <<>>
    /\ SystemIdle
    /\ MemoryIdle

Start(t, r) ==
    /\ pc' = [pc EXCEPT ![t] = "gate"]
    /\ req' = [req EXCEPT ![t] = r]
    /\ written' = [written EXCEPT ![t] = NoEntry]
    /\ resp' = [resp EXCEPT ![t] = NoResp]
    /\ hresp' = [hresp EXCEPT ![t] = NoResponse]
    /\ nops' = nops + 1

\* a store that checks no payload: the call goes on to the gate
Unchecked(t, r, status) == Start(t, r)

Reject(t, r, status) ==
    /\ pc' = pc
    /\ req' = [req EXCEPT ![t] = r]
    /\ written' = [written EXCEPT ![t] = NoEntry]
    /\ resp' = [resp EXCEPT ![t] = [NoResp EXCEPT !.status = status]]
    /\ hresp' = [hresp EXCEPT ![t] = NoResponse]
    /\ nops' = nops + 1

\* MemoryStore::put up to project.gate.lock()
Put(t, e, now) ==
    /\ pc[t] = "idle" /\ nops < MaxOps
    /\ LET entry == filled(e, now, uuids + 1)
           r == [NoReq EXCEPT !.action = "put", !.given = e, !.entry = entry, !.id = entry.id]
       IN /\ uuids' = IF trim_is_empty(e.id) THEN uuids + 1 ELSE uuids
          /\ IF validate_entry(entry) = "ok"
             THEN Start(t, r)
             ELSE Reject(t, r, validate_entry(entry))
    /\ UNCHANGED <<log0, memoryVars, callVars, log, durable, index, gate, args, ret, sysVars>>

\* MemoryStore::patch up to project.gate.lock()
Patch(t, id, patch) ==
    /\ pc[t] = "idle" /\ nops < MaxOps
    /\ LET r == [NoReq EXCEPT !.action = "patch", !.id = id, !.patch = patch]
       IN IF trim_is_empty(id) THEN Reject(t, r, "invalid_entry")
          ELSE IF normalize_patch(patch) # "ok" THEN Reject(t, r, normalize_patch(patch))
          ELSE Start(t, r)
    /\ UNCHANGED <<log0, memoryVars, callVars, log, durable, index, gate, uuids, args, ret, sysVars>>

\* MemoryStore::delete up to project.gate.lock()
Delete(t, id) ==
    /\ pc[t] = "idle" /\ nops < MaxOps
    /\ LET r == [NoReq EXCEPT !.action = "delete", !.id = id]
       IN IF trim_is_empty(id) THEN Reject(t, r, "invalid_entry")
          ELSE Start(t, r)
    /\ UNCHANGED <<log0, memoryVars, callVars, log, durable, index, gate, uuids, args, ret, sysVars>>

\* MemoryStore::sync up to project.gate.lock()
Sync(t) ==
    /\ pc[t] = "idle" /\ nops < MaxOps
    /\ Start(t, [NoReq EXCEPT !.action = "sync"])
    /\ UNCHANGED <<log0, memoryVars, callVars, log, durable, index, gate, uuids, args, ret, sysVars>>

\* a sync that folds the log into the entries the index already holds
SyncMerged(t) ==
    /\ pc[t] = "gate" /\ req[t].action = "sync" /\ gate = NoTask
    /\ LET entries == fold_latest(index.entries, load_all_experiences(log))
       IN /\ index' = [synced |-> TRUE, entries |-> entries]
          /\ resp' = [resp EXCEPT ![t] = [status |-> "ok", entry |-> NoEntry,
                                          stats |-> stats_for_entries(entries)]]
    /\ pc' = [pc EXCEPT ![t] = "idle"]
    /\ UNCHANGED <<log0, memoryVars, callVars, log, durable, gate, req, written, uuids, nops, args, ret, hresp, sysVars>>

\* MemoryStore::sync under the gate: rebuild, install, release
SyncLocked(t) ==
    /\ pc[t] = "gate" /\ req[t].action = "sync" /\ gate = NoTask
    /\ LET entries == rebuild_from_storage(log)
       IN /\ index' = [synced |-> TRUE, entries |-> entries]
          /\ resp' = [resp EXCEPT ![t] = [status |-> "ok", entry |-> NoEntry,
                                          stats |-> stats_for_entries(entries)]]
    /\ pc' = [pc EXCEPT ![t] = "idle"]
    /\ UNCHANGED <<log0, memoryVars, callVars, log, durable, gate, req, written, uuids, nops, args, ret, hresp, sysVars>>

\* a mutator that takes the gate and goes on without ensure_synced_locked
LockUnsynced(t) ==
    /\ pc[t] = "gate" /\ req[t].action \in {"put", "patch", "delete"} /\ gate = NoTask
    /\ gate' = t
    /\ pc' = [pc EXCEPT ![t] = "append"]
    /\ UNCHANGED <<log0, memoryVars, callVars, log, durable, index, req, written, resp, uuids, nops, args, ret, hresp, sysVars>>

\* project.gate.lock() followed by ensure_synced_locked, in put, patch, delete
Lock(t) ==
    /\ pc[t] = "gate" /\ req[t].action \in {"put", "patch", "delete"} /\ gate = NoTask
    /\ gate' = t
    /\ index' = IF index.synced THEN index
                ELSE [synced |-> TRUE, entries |-> rebuild_from_storage(log)]
    /\ pc' = [pc EXCEPT ![t] = "append"]
    /\ UNCHANGED <<log0, memoryVars, callVars, log, durable, req, written, resp, uuids, nops, args, ret, hresp, sysVars>>

\* append_experience_durable: rotate when due, write the line, sync_all
AppendDurable(t, version) ==
    /\ log' = append_raw_inner(log, to_string(version))
    /\ durable' = Len(log')
    /\ written' = [written EXCEPT ![t] = version]
    /\ pc' = [pc EXCEPT ![t] = "apply"]
    /\ UNCHANGED <<log0, memoryVars, callVars, index, gate, req, resp, uuids, nops, args, ret, hresp, sysVars>>

\* a put that rewrites an updated_at that is not above the predecessor's
AppendPutRewritten(t) ==
    /\ pc[t] = "append" /\ gate = t /\ req[t].action = "put"
    /\ LET id == req[t].id
       IN IF id \in DOMAIN index.entries
             /\ req[t].entry.updated_at <= index.entries[id].updated_at
          THEN AppendDurable(t, [req[t].entry EXCEPT
                                    !.updated_at = saturating_add(index.entries[id].updated_at, 1)])
          ELSE AppendDurable(t, req[t].entry)

AppendPut(t) ==
    /\ pc[t] = "append" /\ gate = t /\ req[t].action = "put"
    /\ AppendDurable(t, req[t].entry)

AppendPatch(t, now) ==
    /\ pc[t] = "append" /\ gate = t /\ req[t].action = "patch"
    /\ req[t].id \in DOMAIN index.entries
    /\ LET updated == patched(index.entries[req[t].id], req[t].id, req[t].patch, now)
       IN /\ validate_entry(updated) = "ok"
          /\ AppendDurable(t, updated)

AppendDelete(t, now) ==
    /\ pc[t] = "append" /\ gate = t /\ req[t].action = "delete"
    /\ req[t].id \in DOMAIN index.entries
    /\ AppendDurable(t, tombstoned(index.entries[req[t].id], NoneInt, now))

\* a patch / delete that creates the entry it does not find
NotFoundUpsert(t) ==
    /\ pc[t] = "append" /\ gate = t /\ req[t].action \in {"patch", "delete"}
    /\ req[t].id \notin DOMAIN index.entries
    /\ AppendDurable(t, [NoteEntry(req[t].id, Content1, MaxNow)
                            EXCEPT !.deleted = (req[t].action = "delete")])

\* patch / delete of an id the index does not hold: Ok(None)
NotFound(t) ==
    /\ pc[t] = "append" /\ gate = t /\ req[t].action \in {"patch", "delete"}
    /\ req[t].id \notin DOMAIN index.entries
    /\ resp' = [resp EXCEPT ![t] = [NoResp EXCEPT !.status = "not_found"]]
    /\ gate' = NoTask
    /\ pc' = [pc EXCEPT ![t] = "idle"]
    /\ UNCHANGED <<log0, memoryVars, callVars, log, durable, index, req, written, uuids, nops, args, ret, hresp, sysVars>>

\* apply_latest under index.write(), the returned entry, the gate released
Apply(t) ==
    /\ pc[t] = "apply" /\ gate = t
    /\ LET entries == apply_latest(index.entries, written[t])
       IN /\ index' = [index EXCEPT !.entries = entries]
          /\ resp' = [resp EXCEPT ![t] = [status |-> "ok", entry |-> entries[written[t].id],
                                          stats |-> NoStats]]
    /\ gate' = NoTask
    /\ pc' = [pc EXCEPT ![t] = "idle"]
    /\ UNCHANGED <<log0, memoryVars, callVars, log, durable, req, written, uuids, nops, args, ret, hresp, sysVars>>

\* ContextManager::graft_experience: a plain append, taken without the gate
GraftExperience ==
    /\ nops < MaxOps
    /\ log' = append_raw_inner(log, ExperienceLine)
    /\ durable' = IF should_rotate(log) THEN 0 ELSE durable
    /\ nops' = nops + 1
    /\ UNCHANGED <<log0, memoryVars, callVars, index, gate, pc, req, written, resp, uuids, args, ret, hresp, sysVars>>

Next ==
    \/ \E t \in Tasks, e \in PutEntries, now \in Clock : Put(t, e, now)
    \/ \E t \in Tasks, id \in PatchIds, p \in Patches : Patch(t, id, p)
    \/ \E t \in Tasks, id \in PatchIds : Delete(t, id)
    \/ \E t \in Tasks : Sync(t)
    \/ \E t \in Tasks : SyncLocked(t)
    \/ \E t \in Tasks : Lock(t)
    \/ \E t \in Tasks : AppendPut(t)
    \/ \E t \in Tasks, now \in Clock : AppendPatch(t, now)
    \/ \E t \in Tasks, now \in Clock : AppendDelete(t, now)
    \/ \E t \in Tasks : NotFound(t)
    \/ \E t \in Tasks : Apply(t)
    \/ GraftExperience

Spec == Init /\ [][Next]_vars

TypeOK ==
    /\ gate \in Tasks \cup {NoTask}
    /\ \A t \in Tasks : pc[t] \in {"idle", "insert", "gate", "append", "apply"}
    /\ nops \in 0..MaxOps

\* the memory store alone: every line of the log is written through it
NextStore ==
    \/ \E t \in Tasks, e \in PutEntries, now \in Clock : Put(t, e, now)
    \/ \E t \in Tasks, id \in PatchIds, p \in Patches : Patch(t, id, p)
    \/ \E t \in Tasks, id \in PatchIds : Delete(t, id)
    \/ \E t \in Tasks : Sync(t)
    \/ \E t \in Tasks : SyncLocked(t)
    \/ \E t \in Tasks : Lock(t)
    \/ \E t \in Tasks : AppendPut(t)
    \/ \E t \in Tasks, now \in Clock : AppendPatch(t, now)
    \/ \E t \in Tasks, now \in Clock : AppendDelete(t, now)
    \/ \E t \in Tasks : NotFound(t)
    \/ \E t \in Tasks : Apply(t)

SpecStore == Init /\ [][NextStore]_vars

-----------------------------------------------------------------------------
(* The memory store when append_experience_durable fails *)

\* the part of a line a failed write_all left in the file: it parses as nothing
TornLine == [schema |-> "Torn", entry |-> NoEntry]

\* how far append_raw_inner got before it returned Err
AppendErrors == {"rotate", "open", "write_all", "sync_all"}

\* the file a failed append_raw_inner leaves behind
failed_append(lines, line, error) ==
    IF error = "rotate" THEN lines
    ELSE IF error = "open" THEN (IF should_rotate(lines) THEN <<>> ELSE lines)
    ELSE IF error = "write_all" THEN append_raw_inner(lines, TornLine)
    ELSE append_raw_inner(lines, line)

\* the version put, patch or delete serializes for its append
version_of(t, now) ==
    IF req[t].action = "put" THEN req[t].entry
    ELSE IF req[t].action = "patch"
         THEN patched(index.entries[req[t].id], req[t].id, req[t].patch, now)
         ELSE tombstoned(index.entries[req[t].id], NoneInt, now)

\* a store that applies the version although its append failed
AppendFailApplied(t, now, error) ==
    /\ pc[t] = "append" /\ gate = t
    /\ req[t].action = "put" \/ req[t].id \in DOMAIN index.entries
    /\ error = "rotate" => should_rotate(log)
    /\ log' = failed_append(log, to_string(version_of(t, now)), error)
    /\ durable' = IF should_rotate(log) /\ error # "rotate" THEN 0 ELSE durable
    /\ index' = [index EXCEPT !.entries = apply_latest(@, version_of(t, now))]
    /\ written' = [written EXCEPT ![t] = version_of(t, now)]
    /\ resp' = [resp EXCEPT ![t] = [NoResp EXCEPT !.status = "storage_error"]]
    /\ gate' = NoTask
    /\ pc' = [pc EXCEPT ![t] = "idle"]
    /\ UNCHANGED <<log0, memoryVars, callVars, req, uuids, nops, args, ret, hresp, sysVars>>

\* put / patch / delete when append_experience_durable returns Err: the `?`
\* returns MemoryStoreError::Storage, the guard is dropped, the index is as it was
AppendFail(t, now, error) ==
    /\ pc[t] = "append" /\ gate = t
    /\ req[t].action = "put" \/ req[t].id \in DOMAIN index.entries
    /\ error = "rotate" => should_rotate(log)
    /\ log' = failed_append(log, to_string(version_of(t, now)), error)
    /\ durable' = IF should_rotate(log) /\ error # "rotate" THEN 0 ELSE durable
    /\ written' = [written EXCEPT ![t] = version_of(t, now)]
    /\ resp' = [resp EXCEPT ![t] = [NoResp EXCEPT !.status = "storage_error"]]
    /\ gate' = NoTask
    /\ pc' = [pc EXCEPT ![t] = "idle"]
    /\ UNCHANGED <<log0, memoryVars, callVars, index, req, uuids, nops, args, ret, hresp, sysVars>>

FailEntries == {NoteEntry(IdA, Content1, 1), NoteEntry(IdA, Content2, 2), NoteEntry(IdB, Content1, 1)}

NextFail ==
    \/ \E t \in Tasks, e \in FailEntries : Put(t, e, MaxNow)
    \/ \E t \in Tasks : Patch(t, IdA, PatchContent)
    \/ \E t \in Tasks : Delete(t, IdA)
    \/ \E t \in Tasks : Lock(t)
    \/ \E t \in Tasks : AppendPut(t)
    \/ \E t \in Tasks : AppendPatch(t, MaxNow)
    \/ \E t \in Tasks : AppendDelete(t, MaxNow)
    \/ \E t \in Tasks : NotFound(t)
    \/ \E t \in Tasks : Apply(t)
    \/ \E t \in Tasks, error \in AppendErrors : AppendFail(t, MaxNow, error)

SpecFail == Init /\ [][NextFail]_vars

-----------------------------------------------------------------------------
(* ProjectManager: the LRU cache of loaded projects *)

\* canonical project paths
Paths == 1..(MaxProjects + 1)

\* NonZeroUsize::new(config.max_projects).unwrap_or(NonZeroUsize::MIN)
capacity(n) == IF n = 0 THEN 1 ELSE n

Contains(cache, k) == \E i \in 1..Len(cache) : cache[i] = k

Without(cache, k) == SelectSeq(cache, LAMBDA x : x # k)

\* the keys of the cache in the order of their last use by LruCache::get or
\* LruCache::put, the latest first
touch(order, k) == <<k>> \o Without(order, k)

\* a lookup that leaves the recency order alone, as LruCache::peek does
promote_peek(cache, k) == cache

\* LruCache::get: a hit makes the key the most recently used
promote(cache, k) == IF Contains(cache, k) THEN <<k>> \o Without(cache, k) ELSE cache

\* an LruCache::put that never evicts
put_unbounded(cache, k, cap) == <<k>> \o Without(cache, k)

\* LruCache::put: a present key is refreshed, a new key evicts the least
\* recently used one when the cache is full
put(cache, k, cap) ==
    IF Contains(cache, k) THEN <<k>> \o Without(cache, k)
    ELSE IF Len(cache) >= cap THEN <<k>> \o SubSeq(cache, 1, cap - 1)
    ELSE <<k>> \o cache

\* LruCache::pop_lru
pop_lru(cache) == IF Len(cache) = 0 THEN cache ELSE SubSeq(cache, 1, Len(cache) - 1)

InitManager ==
    /\ StoreIdle
    /\ args = <<>> /\ ret = <<>>
    /\ hresp = [t \in Tasks |-> NoResponse] /\ spawned = <<>>
    /\ pid_file = NoFile /\ socket_path = NoFile
    /\ daemon = [d \in Daemons |-> "new"]
    /\ conn = <<>>
    /\ manifests = {}
    /\ projects = <<>>
    /\ max_projects \in 0..MaxProjects
    /\ loading = [t \in Tasks |-> NoPath]

\* the result of a ProjectManager call as its caller sees it
Outcome(op, cwd, result) == [op |-> op, cwd |-> cwd, result |-> result]

\* the InitProject arm of DaemonHandler::handle: Response::ok() on Ok, and
\* Response::error(ErrorCode::InternalError, ..) on every Err
init_response(result) == IF result = "Ok" THEN "Ok" ELSE "InternalError"

\* ProjectManager::init_project up to Project::create: canonicalize, then
\* the manifest.json check that returns AlreadyInitialized
init_project(t, cwd) ==
    /\ loading[t] = NoPath /\ outcome[t].result # "creating" /\ nops < MaxOps
    /\ nops' = nops + 1
    /\ IF cwd \in manifests
       THEN /\ outcome' = [outcome EXCEPT ![t] = Outcome("init_project", cwd, "AlreadyInitialized")]
            /\ hresp' = [hresp EXCEPT ![t] = [request |-> "init_project",
                                              response |-> init_response("AlreadyInitialized")]]
       ELSE /\ outcome' = [outcome EXCEPT ![t] = Outcome("init_project", cwd, "creating")]
            /\ UNCHANGED hresp
    /\ UNCHANGED <<log0, memoryVars, manifest_saves, recent, log, durable, index, gate, pc, req, written,
                   resp, uuids, pureVars, spawned, managerVars, daemonVars, conn>>

\* ProjectManager::init_project from Project::create on: create_dir_all and
\* save_manifest write the manifest whatever is there, then cache.put
init_project_create(t) ==
    /\ outcome[t].result = "creating"
    /\ LET cwd == outcome[t].cwd IN
          /\ manifests' = manifests \cup {cwd}
          /\ manifest_saves' = (cwd :> (IF cwd \in DOMAIN manifest_saves
                                        THEN manifest_saves[cwd] + 1 ELSE 1)) @@ manifest_saves
          /\ projects' = put(projects, cwd, capacity(max_projects))
          /\ recent' = touch(recent, cwd)
          /\ outcome' = [outcome EXCEPT ![t] = Outcome("init_project", cwd, "Ok")]
          /\ hresp' = [hresp EXCEPT ![t] = [request |-> "init_project",
                                            response |-> init_response("Ok")]]
    /\ UNCHANGED <<log0, memoryVars, log, durable, index, gate, pc, req, written, resp, uuids, nops,
                   pureVars, spawned, max_projects, loading, daemonVars, conn>>

\* ProjectManager::get_project up to the end of load_project
get_project(t, cwd) ==
    /\ loading[t] = NoPath /\ outcome[t].result # "creating" /\ nops < MaxOps
    /\ nops' = nops + 1
    /\ IF Contains(projects, cwd)
       THEN /\ projects' = promote(projects, cwd)
            /\ recent' = touch(recent, cwd)
            /\ outcome' = [outcome EXCEPT ![t] = Outcome("get_project", cwd, "Ok")]
            /\ UNCHANGED loading
       ELSE /\ UNCHANGED <<projects, recent>>
            /\ loading' = IF cwd \in manifests THEN [loading EXCEPT ![t] = cwd] ELSE loading
            /\ outcome' = [outcome EXCEPT ![t] =
                              Outcome("get_project", cwd,
                                      IF cwd \in manifests THEN "loading" ELSE "NotInitialized")]
    /\ UNCHANGED <<log0, memoryVars, manifest_saves, log, durable, index, gate, pc, req, written, resp,
                   uuids, pureVars, handlerVars, manifests, max_projects, daemonVars, conn>>

\* a cache that pushes the loaded project without looking for its key
get_project_put_push(t) ==
    /\ loading[t] # NoPath
    /\ projects' = <<loading[t]>> \o projects
    /\ recent' = touch(recent, loading[t])
    /\ loading' = [loading EXCEPT ![t] = NoPath]
    /\ outcome' = [outcome EXCEPT ![t] = Outcome("get_project", loading[t], "Ok")]
    /\ UNCHANGED <<log0, memoryVars, manifest_saves, log, durable, index, gate, pc, req, written, resp,
                   uuids, nops, pureVars, handlerVars, manifests, max_projects, daemonVars, conn>>

\* ProjectManager::get_project: the loaded project is added to the cache
get_project_put(t) ==
    /\ loading[t] # NoPath
    /\ projects' = put(projects, loading[t], capacity(max_projects))
    /\ recent' = touch(recent, loading[t])
    /\ loading' = [loading EXCEPT ![t] = NoPath]
    /\ outcome' = [outcome EXCEPT ![t] = Outcome("get_project", loading[t], "Ok")]
    /\ UNCHANGED <<log0, memoryVars, manifest_saves, log, durable, index, gate, pc, req, written, resp,
                   uuids, nops, pureVars, handlerVars, manifests, max_projects, daemonVars, conn>>

\* ProjectManager::new over the same data directory: an empty cache, the
\* project storage directories as the previous manager left them; the calls
\* in flight on the previous manager end with it
ProjectManager_new ==
    /\ nops < MaxOps
    /\ nops' = nops + 1
    /\ projects' = <<>>
    /\ recent' = <<>>
    /\ loading' = [t \in Tasks |-> NoPath]
    /\ outcome' = [t \in Tasks |->
                      IF outcome[t].result \in {"creating", "loading"} THEN NoOutcome ELSE outcome[t]]
    /\ UNCHANGED <<log0, memoryVars, manifest_saves, log, durable, index, gate, pc, req, written, resp,
                   uuids, pureVars, handlerVars, manifests, max_projects, daemonVars, conn>>

\* an eviction that removes the storage directory of the evicted project
evict_lru_purge ==
    /\ nops < MaxOps
    /\ nops' = nops + 1
    /\ projects' = pop_lru(projects)
    /\ manifests' = {cwd \in manifests : Contains(projects', cwd)}
    /\ UNCHANGED <<log0, memoryVars, callVars, log, durable, index, gate, pc, req, written, resp, uuids,
                   pureVars, handlerVars, max_projects, loading, daemonVars, conn>>

\* ProjectManager::evict_lru
evict_lru ==
    /\ nops < MaxOps
    /\ nops' = nops + 1
    /\ projects' = pop_lru(projects)
    /\ UNCHANGED <<log0, memoryVars, callVars, log, durable, index, gate, pc, req, written, resp, uuids,
                   pureVars, handlerVars, manifests, max_projects, loading, daemonVars, conn>>

\* ProjectManager::evict_all_except
evict_all_except(keep) ==
    /\ nops < MaxOps
    /\ nops' = nops + 1
    /\ projects' = SelectSeq(projects, LAMBDA k : k = keep)
    /\ UNCHANGED <<log0, memoryVars, callVars, log, durable, index, gate, pc, req, written, resp, uuids,
                   pureVars, handlerVars, manifests, max_projects, loading, daemonVars, conn>>

\* ProjectManager::loaded_count
loaded_count == Len(projects)

NextManager ==
    \/ \E t \in Tasks, cwd \in Paths : init_project(t, cwd)
    \/ \E t \in Tasks : init_project_create(t)
    \/ \E t \in Tasks, cwd \in Paths : get_project(t, cwd)
    \/ \E t \in Tasks : get_project_put(t)
    \/ evict_lru
    \/ \E keep \in Paths : evict_all_except(keep)
    \/ ProjectManager_new

SpecManager == InitManager /\ [][NextManager]_vars

\* ProjectManager::new over a data directory in which projects were
\* initialized by an earlier process: their manifests exist, the cache is empty
InitLoaded ==
    /\ StoreIdle
    /\ args = <<>> /\ ret = <<>>
    /\ hresp = [t \in Tasks |-> NoResponse] /\ spawned = <<>>
    /\ pid_file = NoFile /\ socket_path = NoFile
    /\ daemon = [d \in Daemons |-> "new"]
    /\ conn = <<>>
    /\ manifests \in SUBSET Paths /\ manifests # {}
    /\ projects = <<>>
    /\ max_projects \in 0..MaxProjects
    /\ loading = [t \in Tasks |-> NoPath]

SpecLoaded == InitLoaded /\ [][NextManager]_vars

-----------------------------------------------------------------------------
(* Daemon: the PID lock, the socket file and the exit paths.  Daemon d is a
   process with PID d; every daemon is configured with the same pid_file and
   socket_path. *)

File(d) == [exists |-> TRUE, pid |-> d]

\* is_process_running: the process has started and has not exited
is_process_running(d) == d \in Daemons /\ daemon[d] \notin {"new", "exited", "killed"}

DaemonStep(d, from, to) ==
    /\ daemon[d] = from
    /\ daemon' = [daemon EXCEPT ![d] = to]
    /\ UNCHANGED <<storeVars, pureVars, handlerVars, managerVars, conn>>

\* Daemon::acquire_pid_lock: pid_file.exists(), read_to_string, is_process_running
acquire_pid_lock(d) ==
    /\ \/ /\ ~pid_file.exists
          /\ DaemonStep(d, "new", "write")
       \/ /\ pid_file.exists /\ is_process_running(pid_file.pid)
          /\ DaemonStep(d, "new", "refused")
       \/ /\ pid_file.exists /\ ~is_process_running(pid_file.pid)
          /\ DaemonStep(d, "new", "stale")
    /\ UNCHANGED <<pid_file, socket_path>>

\* Daemon::acquire_pid_lock: std::fs::remove_file(pid_file)? of a stale file
remove_stale(d) ==
    /\ IF pid_file.exists
       THEN DaemonStep(d, "stale", "write")
       ELSE DaemonStep(d, "stale", "refused")
    /\ pid_file' = NoFile
    /\ UNCHANGED socket_path

\* Daemon::acquire_pid_lock: std::fs::write(pid_file, std::process::id())
write_pid(d) ==
    /\ DaemonStep(d, "write", "locked")
    /\ pid_file' = File(d)
    /\ UNCHANGED socket_path

\* IpcServer::new succeeds: the socket file found is removed, the path bound
IpcServer_new(d) ==
    /\ DaemonStep(d, "locked", "serving")
    /\ socket_path' = File(d)
    /\ UNCHANGED pid_file

\* IpcServer::new fails: at create_dir_all or bind (the socket file found is
\* already removed), or at set_permissions (the path is already bound)
IpcServer_new_fails(d, bound) ==
    /\ DaemonStep(d, "locked", "failed")
    /\ socket_path' = IF bound THEN File(d) ELSE NoFile
    /\ UNCHANGED pid_file

\* Daemon::run leaves select! (signal, shutdown request or server error) and
\* runs Daemon::cleanup
cleanup(d) ==
    /\ DaemonStep(d, "serving", "stopped")
    /\ socket_path' = NoFile
    /\ pid_file' = NoFile

\* a panic while the server runs
panic(d) ==
    /\ DaemonStep(d, "serving", "panicked")
    /\ UNCHANGED <<pid_file, socket_path>>

\* impl Drop for Daemon, at the end of main::run on every path
drop(d) ==
    /\ \E from \in {"refused", "failed", "stopped", "panicked"} : DaemonStep(d, from, "exited")
    /\ pid_file' = NoFile
    /\ UNCHANGED socket_path

\* the process is killed (SIGKILL): nothing is cleaned up, no Drop runs
killed(d) ==
    /\ \E from \in {"locked", "serving"} : DaemonStep(d, from, "killed")
    /\ UNCHANGED <<pid_file, socket_path>>

NextDaemon ==
    \E d \in Daemons :
        \/ killed(d)
        \/ acquire_pid_lock(d)
        \/ remove_stale(d)
        \/ write_pid(d)
        \/ IpcServer_new(d)
        \/ \E bound \in BOOLEAN : IpcServer_new_fails(d, bound)
        \/ cleanup(d)
        \/ panic(d)
        \/ drop(d)

SpecDaemon == Init /\ [][NextDaemon]_vars

-----------------------------------------------------------------------------
(* DaemonHandler::handle: the init gate and the fire-and-forget requests.
   The store variables are the memory store of the project at path 1. *)

\* ProjectManager::is_initialized
is_initialized(cwd) == cwd \in manifests

\* the requests that check is_initialized before anything else
Gated == {"get_context", "memory_put", "memory_patch", "memory_delete",
          "memory_get", "memory_list", "memory_sync"}

\* the requests answered with Response::ack()
FireAndForget == {"prepare_context", "notify_file_change", "graft_experience", "shutdown"}

Respond(t, request, response) ==
    /\ pc[t] = "idle" /\ nops < MaxOps
    /\ nops' = nops + 1
    /\ hresp' = [hresp EXCEPT ![t] = [request |-> request, response |-> response]]

\* the match on the result of MemoryStore::put / patch / delete in the
\* MemoryPut, MemoryPatch and MemoryDelete arms
memory_response(status) ==
    CASE status = "ok" -> "MemoryAck"
      [] status = "not_found" -> "InvalidRequest"
      [] OTHER -> "InternalError"

\* the MemoryPut arm: the entry handed to MemoryStore::put carries the time of
\* the request as updated_at, whatever the client sent; a blank id is filled
\* with a fresh Uuid, here as in put
stored_entry(entry, now) ==
    [entry EXCEPT
        !.created_at = IF @ > 0 THEN @ ELSE now,
        !.updated_at = now]

\* the arms of a gated request once the project is known to be initialized
dispatch(t, request) ==
    CASE request = "memory_put" -> \E e \in FailEntries : Put(t, stored_entry(e, MaxNow), MaxNow)
      [] request = "memory_patch" -> Patch(t, IdA, PatchContent)
      [] request = "memory_delete" -> Delete(t, IdA)
      [] request = "memory_sync" -> Sync(t)
      [] request \in {"memory_get", "memory_list"} ->
            /\ Respond(t, request, "Ok") /\ gate = NoTask
            /\ index' = IF index.synced THEN index
                        ELSE [synced |-> TRUE, entries |-> rebuild_from_storage(log)]
            /\ UNCHANGED <<log0, memoryVars, callVars, log, durable, gate, pc, req, written, resp, uuids,
                           pureVars, sysVars>>
      [] OTHER ->
            /\ Respond(t, request, "Ok")
            /\ UNCHANGED <<log0, memoryVars, callVars, log, durable, index, gate, pc, req, written, resp, uuids,
                           pureVars, sysVars>>

\* the arms of the fire-and-forget requests: tokio::spawn, then Response::ack()
ack(t, request) ==
    /\ Respond(t, request, "Ack")
    /\ spawned' = IF request = "notify_file_change" THEN spawned
                  ELSE Append(spawned, [work |-> request, result |-> "running"])
    /\ UNCHANGED <<log0, memoryVars, callVars, log, durable, index, gate, pc, req, written, resp, uuids,
                   pureVars, managerVars, daemonVars, conn>>

\* a handler that waits for the work and answers with its outcome
handle_awaited(t, request, cwd) ==
    /\ request \in FireAndForget
    /\ \E result \in {"ok", "error"} :
          /\ Respond(t, request, IF result = "ok" THEN "Ack" ELSE "InternalError")
          /\ spawned' = Append(spawned, [work |-> request, result |-> result])
    /\ UNCHANGED <<log0, memoryVars, callVars, log, durable, index, gate, pc, req, written, resp, uuids,
                   pureVars, managerVars, daemonVars, conn>>

\* a handler without the is_initialized checks
handle_unchecked(t, request, cwd) ==
    IF request \in Gated THEN dispatch(t, request) ELSE ack(t, request)

\* DaemonHandler::handle
handle(t, request, cwd) ==
    IF request \in Gated
    THEN IF ~is_initialized(cwd)
         THEN /\ Respond(t, request, "NotInitialized")
              /\ UNCHANGED <<log0, memoryVars, callVars, log, durable, index, gate, pc, req, written, resp, uuids,
                             pureVars, sysVars>>
         ELSE dispatch(t, request)
    ELSE ack(t, request)

\* the spawned task runs to its end and logs its outcome
run_spawned(i, result) ==
    /\ spawned[i].result = "running"
    /\ spawned' = [spawned EXCEPT ![i].result = result]
    /\ IF spawned[i].work = "graft_experience" /\ result = "ok"
       THEN /\ log' = append_raw_inner(log, ExperienceLine)
            /\ durable' = IF should_rotate(log) THEN 0 ELSE durable
       ELSE UNCHANGED <<log, durable>>
    /\ UNCHANGED <<log0, memoryVars, callVars, index, gate, pc, req, written, resp, uuids, nops,
                   pureVars, hresp, managerVars, daemonVars, conn>>

NextHandler ==
    \/ \E t \in Tasks, request \in Gated \cup FireAndForget : handle(t, request, 1)
    \/ \E t \in Tasks : init_project(t, 1)
    \/ \E t \in Tasks : init_project_create(t)
    \/ \E i \in DOMAIN spawned, result \in {"ok", "error"} : run_spawned(i, result)
    \/ \E t \in Tasks : SyncLocked(t)
    \/ \E t \in Tasks : Lock(t)
    \/ \E t \in Tasks : AppendPut(t)
    \/ \E t \in Tasks : AppendPatch(t, MaxNow)
    \/ \E t \in Tasks : AppendDelete(t, MaxNow)
    \/ \E t \in Tasks : NotFound(t)
    \/ \E t \in Tasks : Apply(t)

SpecHandler == Init /\ [][NextHandler]_vars

-----------------------------------------------------------------------------
(* IpcServer::handle_connection: one connection from accept to close.
   Connection c is served by task c.  The timer of tokio::time::timeout is
   taken to fire as soon as REQUEST_TIMEOUT has elapsed. *)

MAX_REQUEST_SIZE == 1024 * 1024

\* milliseconds
REQUEST_TIMEOUT == 100

\* the length prefixes a client sends (a u32)
Lengths == {1, MAX_REQUEST_SIZE, MAX_REQUEST_SIZE + 1}

\* read_request accepts a prefix one larger than the limit
too_large_above(len) == len > MAX_REQUEST_SIZE + 1

\* read_request: len > MAX_REQUEST_SIZE
too_large(len) == len > MAX_REQUEST_SIZE

\* read_request has what it needs to return
Complete(c) ==
    \/ conn[c].eof
    \/ conn[c].arrived = "frame"
    \/ conn[c].arrived = "prefix" /\ too_large(conn[c].len)

ConnStep(c, stage, update) ==
    /\ c \in DOMAIN conn
    /\ conn[c].stage = stage
    /\ conn' = [conn EXCEPT ![c] = update]
    /\ UNCHANGED <<storeVars, pureVars, handlerVars, managerVars, daemonVars>>

\* IpcServer::run: accept and tokio::spawn(handle_connection); the client is
\* about to send a frame of len bytes that parses or not, and may send more
\* bytes after it
accept(len, parses, extra) ==
    /\ Len(conn) < Cardinality(Tasks)
    /\ conn' = Append(conn, [len |-> len, parses |-> parses /\ ~too_large(len), extra |-> extra,
                             arrived |-> "none", eof |-> FALSE, elapsed |-> 0,
                             body_read |-> FALSE, handled |-> 0, frames |-> <<>>,
                             result |-> "none", stage |-> "reading"])
    /\ UNCHANGED <<storeVars, pureVars, handlerVars, managerVars, daemonVars>>

\* bytes of the client arrive: the length prefix, then the body; or the
\* client closes its end before the frame is complete
arrive(c, eof) ==
    /\ c \in DOMAIN conn /\ conn[c].arrived # "frame" /\ ~conn[c].eof
    /\ ConnStep(c, "reading",
                IF eof THEN [conn[c] EXCEPT !.eof = TRUE]
                ELSE [conn[c] EXCEPT !.arrived = IF @ = "none" THEN "prefix" ELSE "frame"])

\* a timeout that never fires
tick_forever(c, ms) ==
    /\ c \in DOMAIN conn /\ conn[c].elapsed < REQUEST_TIMEOUT
    /\ ConnStep(c, "reading", [conn[c] EXCEPT !.elapsed = @ + ms])

\* time passes; tokio::time::timeout(REQUEST_TIMEOUT, read_request) gives
\* Elapsed when the time is up and read_request has not returned
tick(c, ms) ==
    /\ c \in DOMAIN conn /\ conn[c].elapsed < REQUEST_TIMEOUT
    /\ ConnStep(c, "reading",
                IF conn[c].elapsed + ms >= REQUEST_TIMEOUT /\ ~Complete(c)
                THEN [conn[c] EXCEPT !.elapsed = @ + ms, !.result = "Timeout", !.stage = "closed"]
                ELSE [conn[c] EXCEPT !.elapsed = @ + ms])

\* read_request returns; on Err handle_connection writes
\* Response::error(InvalidRequest, ..) and returns the error
read_request(c, sent) ==
    /\ c \in DOMAIN conn /\ Complete(c)
    /\ LET r == conn[c]
           error == IF r.arrived = "none" THEN "Io"
                    ELSE IF too_large(r.len) THEN "RequestTooLarge"
                    ELSE IF r.arrived = "prefix" THEN "Io"
                    ELSE IF r.parses THEN "none"
                    ELSE "Deserialize"
           body_read == r.arrived = "frame" /\ ~too_large(r.len)
       IN ConnStep(c, "reading",
                   IF error = "none"
                   THEN [r EXCEPT !.body_read = TRUE, !.stage = "parsed"]
                   ELSE [r EXCEPT !.body_read = body_read,
                                  !.frames = IF sent THEN <<"InvalidRequest">> ELSE <<>>,
                                  !.result = IF sent THEN error ELSE "Io",
                                  !.stage = "closed"])

\* handle_connection: handler.handle(request) is called
call_handler(c) ==
    ConnStep(c, "parsed", [conn[c] EXCEPT !.handled = @ + 1, !.stage = "handling"])

\* a connection kept open for the next frame of the client
write_response_keep_alive(c, sent) ==
    /\ c \in DOMAIN conn /\ hresp[c] # NoResponse
    /\ ConnStep(c, "handling",
                [conn[c] EXCEPT !.frames = IF sent THEN Append(@, hresp[c].response) ELSE @,
                                !.result = IF sent THEN "Ok" ELSE "Io",
                                !.stage = IF conn[c].extra /\ conn[c].handled < 2
                                          THEN "parsed" ELSE "closed"])

\* handle_connection: write_response(..)? and Ok(()); the stream is dropped
write_response(c, sent) ==
    /\ c \in DOMAIN conn /\ hresp[c] # NoResponse
    /\ ConnStep(c, "handling",
                [conn[c] EXCEPT !.frames = IF sent THEN Append(@, hresp[c].response) ELSE @,
                                !.result = IF sent THEN "Ok" ELSE "Io",
                                !.stage = "closed"])

NextConn ==
    \/ \E len \in Lengths, parses, extra \in BOOLEAN : accept(len, parses, extra)
    \/ \E c \in Tasks, eof \in BOOLEAN : arrive(c, eof)
    \/ \E c \in Tasks, ms \in {REQUEST_TIMEOUT} : tick(c, ms)
    \/ \E c \in Tasks, sent \in BOOLEAN : read_request(c, sent)
    \/ \E c \in Tasks : call_handler(c)
    \/ \E c \in Tasks, request \in {"memory_put", "graft_experience"} :
          /\ c \in DOMAIN conn /\ conn[c].stage = "handling" /\ hresp[c] = NoResponse
          /\ handle(c, request, 1)
    \/ \E i \in DOMAIN spawned, result \in {"ok", "error"} : run_spawned(i, result)
    \/ \E c \in Tasks, sent \in BOOLEAN : write_response(c, sent)

SpecConn == Init /\ [][NextConn]_vars

-----------------------------------------------------------------------------
(* The memory store when requests carry invalid payloads *)

PatchBlankKind == [EmptyPatch EXCEPT !.kind = [some |-> TRUE, v |-> Blank]]
PatchBlankContent == [EmptyPatch EXCEPT !.content = [some |-> TRUE, v |-> Blank]]

\* entries put rejects, and two it accepts
InvalidEntries ==
    {[NoteEntry(IdA, Content1, 1) EXCEPT !.kind = Blank],
     [NoteEntry(IdB, Content1, 1) EXCEPT !.content = Blank],
     [NoteEntry(Blank, Content1, 0) EXCEPT !.content = Blank],
     NoteEntry(IdA, Content1, 1),
     NoteEntry(Blank, Content1, 0)}

NextInvalid ==
    \/ \E t \in Tasks, e \in InvalidEntries : Put(t, e, MaxNow)
    \/ \E t \in Tasks, id \in {IdA, Blank},
          p \in {PatchContent, EmptyPatch, PatchBlankKind, PatchBlankContent} : Patch(t, id, p)
    \/ \E t \in Tasks, id \in {IdA, Blank} : Delete(t, id)
    \/ \E t \in Tasks : Lock(t)
    \/ \E t \in Tasks : AppendPut(t)
    \/ \E t \in Tasks : AppendPatch(t, MaxNow)
    \/ \E t \in Tasks : AppendDelete(t, MaxNow)
    \/ \E t \in Tasks : NotFound(t)
    \/ \E t \in Tasks : Apply(t)

SpecInvalid == Init /\ [][NextInvalid]_vars

-----------------------------------------------------------------------------
(* The memory store when reading the log fails during a replay *)

\* a failed replay that installs an empty index and marks it synced
ReplayFailPoisoned(t) ==
    /\ pc[t] = "gate" /\ gate = NoTask
    /\ req[t].action = "sync" \/ ~index.synced
    /\ Len(log) >= 1
    /\ index' = [synced |-> TRUE, entries |-> EmptyMap]
    /\ resp' = [resp EXCEPT ![t] = [NoResp EXCEPT !.status = "storage_error"]]
    /\ pc' = [pc EXCEPT ![t] = "idle"]
    /\ UNCHANGED <<log0, memoryVars, callVars, log, durable, gate, req, written, uuids, nops, args, ret, hresp, sysVars>>

\* sync, or the ensure_synced_locked of put / patch / delete on an index not
\* yet synced, when read_to_string of the existing file returns Err: the `?`
\* of rebuild_from_storage returns MemoryStoreError::Storage before the index
\* is written, and the guard is dropped
ReplayFail(t) ==
    /\ pc[t] = "gate" /\ gate = NoTask
    /\ req[t].action = "sync" \/ ~index.synced
    /\ Len(log) >= 1
    /\ resp' = [resp EXCEPT ![t] = [NoResp EXCEPT !.status = "storage_error"]]
    /\ pc' = [pc EXCEPT ![t] = "idle"]
    /\ UNCHANGED <<log0, memoryVars, callVars, log, durable, index, gate, req, written, uuids, nops, args, ret, hresp, sysVars>>

NextReplay ==
    \/ \E t \in Tasks, e \in FailEntries : Put(t, e, MaxNow)
    \/ \E t \in Tasks : Delete(t, IdA)
    \/ \E t \in Tasks : Sync(t)
    \/ \E t \in Tasks : SyncLocked(t)
    \/ \E t \in Tasks : Lock(t)
    \/ \E t \in Tasks : AppendPut(t)
    \/ \E t \in Tasks : AppendDelete(t, MaxNow)
    \/ \E t \in Tasks : NotFound(t)
    \/ \E t \in Tasks : Apply(t)
    \/ \E t \in Tasks : ReplayFail(t)

SpecReplay == Init /\ [][NextReplay]_vars

-----------------------------------------------------------------------------
(* One MemoryStore serving several projects: MemoryStore.projects maps the
   hash of a project path to its ProjectMemory, Storage keeps one
   experience.jsonl per hash.  pc, req, written, resp are those of the task. *)

\* the project paths the requests name
ProjectPaths == 1..MaxProjects

\* a hash every path shares
project_hash_shared(project_path) == <<"sha256", NoPath>>

\* Storage::project_hash: the first 16 hex digits of the SHA-256 of the path
\* string, distinct for the distinct paths of the model
project_hash(project_path) == <<"sha256", project_path>>

\* ProjectMemory::default()
ProjectMemory_default == [gate |-> NoTask, index |-> [synced |-> FALSE, entries |-> EmptyMap]]

\* experience.jsonl of a project dir; a file that does not exist reads as empty
file_of(hash) == IF hash \in DOMAIN files THEN files[hash] ELSE <<>>

ProjectEntries == {NoteEntry(IdA, Content1, 1), NoteEntry(IdB, Content1, 1)}

ProjectRequests ==
    {[NoReq EXCEPT !.action = "put", !.given = e, !.entry = e, !.id = e.id] : e \in ProjectEntries}
    \cup {[NoReq EXCEPT !.action = "delete", !.id = IdA], [NoReq EXCEPT !.action = "sync"]}

\* the lookup of MemoryStore::project_memory under projects.read()
project_memory(t, project_path, r) ==
    /\ pc[t] = "idle" /\ nops < MaxOps
    /\ nops' = nops + 1
    /\ req' = [req EXCEPT ![t] = r]
    /\ written' = [written EXCEPT ![t] = NoEntry]
    /\ resp' = [resp EXCEPT ![t] = NoResp]
    /\ LET hash == project_hash(project_path)
       IN IF hash \in DOMAIN memories
          THEN /\ project' = [project EXCEPT ![t] = [path |-> project_path, arc |-> memories[hash]]]
               /\ pc' = [pc EXCEPT ![t] = "gate"]
          ELSE /\ project' = [project EXCEPT ![t] = [path |-> project_path, arc |-> 0]]
               /\ pc' = [pc EXCEPT ![t] = "insert"]
    /\ UNCHANGED <<log0, callVars, log, durable, index, gate, uuids, memories, arcs, files,
                   pureVars, hresp, sysVars>>

\* an insertion that puts a new ProjectMemory in the map whatever it holds
project_memory_replace(t) ==
    /\ pc[t] = "insert"
    /\ arcs' = Append(arcs, ProjectMemory_default)
    /\ memories' = (project_hash(project[t].path) :> Len(arcs) + 1) @@ memories
    /\ project' = [project EXCEPT ![t].arc = Len(arcs) + 1]
    /\ pc' = [pc EXCEPT ![t] = "gate"]
    /\ UNCHANGED <<log0, callVars, log, durable, index, gate, req, written, resp, uuids, nops, files,
                   pureVars, hresp, sysVars>>

\* MemoryStore::project_memory under projects.write():
\* entry(hash).or_insert_with(|| Arc::new(ProjectMemory::default())).clone()
project_memory_insert(t) ==
    /\ pc[t] = "insert"
    /\ LET hash == project_hash(project[t].path)
       IN IF hash \in DOMAIN memories
          THEN /\ project' = [project EXCEPT ![t].arc = memories[hash]]
               /\ UNCHANGED <<memories, arcs>>
          ELSE /\ arcs' = Append(arcs, ProjectMemory_default)
               /\ memories' = (hash :> Len(arcs) + 1) @@ memories
               /\ project' = [project EXCEPT ![t].arc = Len(arcs) + 1]
    /\ pc' = [pc EXCEPT ![t] = "gate"]
    /\ UNCHANGED <<log0, callVars, log, durable, index, gate, req, written, resp, uuids, nops, files,
                   pureVars, hresp, sysVars>>

\* project.gate.lock() and ensure_synced_locked of put and delete
lock_project(t) ==
    /\ pc[t] = "gate" /\ req[t].action \in {"put", "delete"}
    /\ arcs[project[t].arc].gate = NoTask
    /\ LET memory == arcs[project[t].arc]
           replay == rebuild_from_storage(file_of(project_hash(project[t].path)))
       IN arcs' = [arcs EXCEPT ![project[t].arc] =
                      [gate |-> t,
                       index |-> IF memory.index.synced THEN memory.index
                                 ELSE [synced |-> TRUE, entries |-> replay]]]
    /\ pc' = [pc EXCEPT ![t] = "append"]
    /\ UNCHANGED <<log0, callVars, log, durable, index, gate, req, written, resp, uuids, nops,
                   memories, files, project, pureVars, hresp, sysVars>>

\* MemoryStore::sync of the project of the task
sync_project(t) ==
    /\ pc[t] = "gate" /\ req[t].action = "sync"
    /\ arcs[project[t].arc].gate = NoTask
    /\ LET entries == rebuild_from_storage(file_of(project_hash(project[t].path)))
       IN /\ arcs' = [arcs EXCEPT ![project[t].arc].index = [synced |-> TRUE, entries |-> entries]]
          /\ resp' = [resp EXCEPT ![t] = [status |-> "ok", entry |-> NoEntry,
                                          stats |-> stats_for_entries(entries)]]
    /\ pc' = [pc EXCEPT ![t] = "idle"]
    /\ UNCHANGED <<log0, callVars, log, durable, index, gate, req, written, uuids, nops,
                   memories, files, project, pureVars, hresp, sysVars>>

\* Storage::append_experience_durable on the experience.jsonl of the project,
\* or Ok(None) of a delete that finds no entry
append_project(t) ==
    /\ pc[t] = "append" /\ arcs[project[t].arc].gate = t
    /\ LET hash == project_hash(project[t].path)
           entries == arcs[project[t].arc].index.entries
       IN IF req[t].action = "delete" /\ req[t].id \notin DOMAIN entries
          THEN /\ resp' = [resp EXCEPT ![t] = [NoResp EXCEPT !.status = "not_found"]]
               /\ arcs' = [arcs EXCEPT ![project[t].arc].gate = NoTask]
               /\ pc' = [pc EXCEPT ![t] = "idle"]
               /\ UNCHANGED <<files, written>>
          ELSE LET version == IF req[t].action = "put" THEN req[t].entry
                              ELSE tombstoned(entries[req[t].id], NoneInt, MaxNow)
               IN /\ files' = (hash :> append_raw_inner(file_of(hash), to_string(version))) @@ files
                  /\ written' = [written EXCEPT ![t] = version]
                  /\ pc' = [pc EXCEPT ![t] = "apply"]
                  /\ UNCHANGED <<arcs, resp>>
    /\ UNCHANGED <<log0, callVars, log, durable, index, gate, req, uuids, nops,
                   memories, project, pureVars, hresp, sysVars>>

\* apply_latest on the index of the project, the guard dropped
apply_project(t) ==
    /\ pc[t] = "apply" /\ arcs[project[t].arc].gate = t
    /\ LET entries == apply_latest(arcs[project[t].arc].index.entries, written[t])
       IN /\ arcs' = [arcs EXCEPT ![project[t].arc] =
                         [gate |-> NoTask, index |-> [synced |-> TRUE, entries |-> entries]]]
          /\ resp' = [resp EXCEPT ![t] = [status |-> "ok", entry |-> entries[written[t].id],
                                          stats |-> NoStats]]
    /\ pc' = [pc EXCEPT ![t] = "idle"]
    /\ UNCHANGED <<log0, callVars, log, durable, index, gate, req, written, uuids, nops,
                   memories, files, project, pureVars, hresp, sysVars>>

NextProjects ==
    \/ \E t \in Tasks, project_path \in ProjectPaths, r \in ProjectRequests :
          project_memory(t, project_path, r)
    \/ \E t \in Tasks : project_memory_insert(t)
    \/ \E t \in Tasks : lock_project(t)
    \/ \E t \in Tasks : sync_project(t)
    \/ \E t \in Tasks : append_project(t)
    \/ \E t \in Tasks : apply_project(t)

InitProjects ==
    /\ StoreIdle /\ SystemIdle
    /\ args = <<>> /\ ret = <<>>

SpecProjects == InitProjects /\ [][NextProjects]_vars

-----------------------------------------------------------------------------
(* compare_entries as a pure function: three entries are drawn, then compared *)

BaseEntry == NoteEntry(IdA, Content1, 1)

FieldNames == {"id", "kind", "content", "tags", "created_at", "updated_at",
               "session_id", "subagent_id", "deleted"}

CmpUniverse ==
    {e \in [id : {IdA, IdB}, kind : {KindNote, <<1, 1>>}, content : {Content1, Content2},
            tags : {<<>>, <<Content1>>}, created_at : {1, 2}, updated_at : {1, 2},
            session_id : {None, Some(Content1)}, subagent_id : {None, Some(Content1)},
            deleted : BOOLEAN] :
        Cardinality({f \in FieldNames : e[f] # BaseEntry[f]}) <= MaxDiff}

NoOrderings == [done |-> FALSE, xy |-> "Equal", yx |-> "Equal", yz |-> "Equal", xz |-> "Equal"]

InitCmp ==
    /\ StoreIdle /\ SystemIdle
    /\ args \in [x : CmpUniverse, y : CmpUniverse, z : CmpUniverse]
    /\ ret = NoOrderings

Compare ==
    /\ ~ret.done
    /\ ret' = [done |-> TRUE,
               xy |-> compare_entries(args.x, args.y),
               yx |-> compare_entries(args.y, args.x),
               yz |-> compare_entries(args.y, args.z),
               xz |-> compare_entries(args.x, args.z)]
    /\ UNCHANGED <<log0, memoryVars, callVars, log, durable, index, gate, pc, req, written, resp, uuids, nops, args, hresp, sysVars>>

NextCmp == Compare

SpecCmp == InitCmp /\ [][NextCmp]_vars

-----------------------------------------------------------------------------
(* The replay as a pure function of the lines: a log and a replica of it     *)
(* whose lines are reordered and duplicated, both folded by a fresh store    *)

FoldLines ==
    {to_string(NoteEntry(IdA, Content1, 1)),
     to_string(NoteEntry(IdA, Content2, 1)),
     to_string([NoteEntry(IdA, Content1, 2) EXCEPT !.deleted = TRUE]),
     to_string(NoteEntry(IdB, Content1, 1)),
     ExperienceLine}

NoReplay == [done |-> FALSE, first |-> EmptyMap, second |-> EmptyMap,
             list_first |-> <<>>, list_second |-> <<>>, tail_first |-> <<>>, tail_second |-> <<>>]

InitFold ==
    /\ StoreIdle /\ SystemIdle
    /\ \E n \in 0..MaxFoldLen : \E lines \in [1..n -> FoldLines] :
           args = [log |-> lines, replica |-> lines]
    /\ ret = NoReplay

\* the replica exchanges two neighbouring lines
Swap(i) ==
    /\ ~ret.done
    /\ i + 1 <= Len(args.replica)
    /\ args' = [args EXCEPT !.replica = [@ EXCEPT ![i] = args.replica[i + 1],
                                                  ![i + 1] = args.replica[i]]]
    /\ UNCHANGED <<log0, memoryVars, callVars, log, durable, index, gate, pc, req, written, resp, uuids, nops, ret, hresp, sysVars>>

\* the replica receives one of its lines a second time
Duplicate(i) ==
    /\ ~ret.done
    /\ i <= Len(args.replica)
    /\ Len(args.replica) <= Len(args.log)
    /\ args' = [args EXCEPT !.replica = Append(@, args.replica[i])]
    /\ UNCHANGED <<log0, memoryVars, callVars, log, durable, index, gate, pc, req, written, resp, uuids, nops, ret, hresp, sysVars>>

\* two independent stores replay their file and list it
Replay ==
    /\ ~ret.done
    /\ LET first == rebuild_from_storage(args.log)
           second == rebuild_from_storage(args.replica)
       IN ret' = [done |-> TRUE, first |-> first, second |-> second,
                  list_first |-> list(first, usize_MAX),
                  list_second |-> list(second, usize_MAX),
                  tail_first |-> list(first, 1),
                  tail_second |-> list(second, 1)]
    /\ UNCHANGED <<log0, memoryVars, callVars, log, durable, index, gate, pc, req, written, resp, uuids, nops, args, hresp, sysVars>>

NextFold ==
    \/ \E i \in 1..MaxFoldLen : Swap(i)
    \/ \E i \in 1..MaxFoldLen : Duplicate(i)
    \/ Replay

SpecFold == InitFold /\ [][NextFold]_vars

-----------------------------------------------------------------------------
(* ExperienceLog::read_recent as a function of the file and the limit       *)

\* the lines a mixed-schema experience.jsonl holds: memory records, a grafted
\* Experience, the rest of a torn write
ReadLines ==
    {to_string(NoteEntry(IdA, Content1, 1)),
     to_string(NoteEntry(IdB, Content1, 1)),
     ExperienceLine,
     TornLine}

\* self.path: the file may not exist
MissingLog == [exists |-> FALSE, lines |-> <<>>]
ExistingLog(lines) == [exists |-> TRUE, lines |-> lines]

NoRead == [done |-> FALSE, result |-> "none", entries |-> <<>>]

InitRead ==
    /\ StoreIdle /\ SystemIdle
    /\ \E limit \in (0..MaxFoldLen) \cup {usize_MAX}, io_error \in BOOLEAN :
          \/ args = [file |-> MissingLog, limit |-> limit, io_error |-> io_error]
          \/ \E n \in 0..MaxFoldLen : \E lines \in [1..n -> ReadLines] :
                 args = [file |-> ExistingLog(lines), limit |-> limit, io_error |-> io_error]
    /\ ret = NoRead

\* ExperienceLog::read_recent::<MemoryEntry>: the limit and path.exists()
\* checks, read_to_string (which may fail), the walk over the lines
ExperienceLog_read_recent ==
    /\ ~ret.done
    /\ ret' = IF args.limit = 0 \/ ~args.file.exists
              THEN [done |-> TRUE, result |-> "Ok", entries |-> <<>>]
              ELSE IF args.io_error
                   THEN [done |-> TRUE, result |-> "Err", entries |-> <<>>]
                   ELSE [done |-> TRUE, result |-> "Ok",
                         entries |-> read_recent(args.file.lines, args.limit)]
    /\ UNCHANGED <<storeVars, args, handlerVars, managerVars, daemonVars, conn>>

NextRead == ExperienceLog_read_recent

SpecRead == InitRead /\ [][NextRead]_vars

-----------------------------------------------------------------------------
(* Properties *)

Idle == \A t \in Tasks : pc[t] = "idle"

MemoryLines(lines) == {i \in 1..Len(lines) : from_str_ok(lines[i])}

LogRecords(id) == {from_str(log[i]) : i \in {j \in MemoryLines(log) : from_str(log[j]).id = id}}

Returns(t, action) == pc[t] = "apply" /\ pc'[t] = "idle" /\ req[t].action = action

Acked(t) ==
    /\ pc[t] = "idle" /\ resp[t].status = "ok"
    /\ req[t].action \in {"put", "patch", "delete"}

\* MemoryStore::get_latest: ensure_synced, then the index entry of the id
get_latest_synced(id) ==
    IF index.synced THEN get_latest(index.entries, id)
    ELSE get_latest(rebuild_from_storage(log), id)

Fails(t) == pc[t] = "append" /\ pc'[t] = "idle" /\ resp'[t].status = "storage_error"

Locks(t) == pc[t] = "gate" /\ pc'[t] = "append"

\* C11 -- write failure has no index effect: when the durable append of a
\* put, patch or delete fails, the call returns a Storage error, the version
\* it serialized is not applied to the index, the entries of the index are
\* what they were, and get_latest of every id answers as before the call
\* (the lazy replay the call made under the gate changes no answer either).
C11_FailureLeavesIndex ==
    [][\A t \in Tasks :
          /\ Fails(t) =>
                /\ index'.entries = index.entries
                /\ gate' = NoTask
                /\ \A id \in {IdA, IdB, written'[t].id} :
                      get_latest_synced(id)' = get_latest_synced(id)
          /\ Locks(t) =>
                \A id \in {IdA, IdB, req[t].id} :
                      get_latest_synced(id)' = get_latest_synced(id)]_vars

\* a put failed at sync_all: its line is in the file, its version is greater
\* than what the index holds for the id, and the index does not hold it
C11_Witness ==
    \E t \in Tasks :
        /\ pc[t] = "idle" /\ resp[t].status = "storage_error" /\ req[t].action = "put"
        /\ \E i \in 1..Len(log) : log[i] = to_string(written[t])
        /\ written[t].id \in DOMAIN index.entries
        /\ compare_entries(index.entries[written[t].id], written[t]) = "Less"


\* C12 as stated -- LRU bound: loaded_count() <= max_projects in every
\* reachable state, for every configured max_projects.
C12_LruBound == loaded_count <= max_projects

\* C12 amended -- loaded_count() never exceeds the capacity of the cache,
\* which is max_projects when that is at least 1 and 1 when max_projects is
\* configured as 0; the cache holds no path twice.
C12_LruBoundCapacity ==
    /\ loaded_count <= capacity(max_projects)
    /\ max_projects >= 1 => loaded_count <= max_projects
    /\ \A i, j \in 1..Len(projects) : projects[i] = projects[j] => i = j

\* the cache is full and a project that was initialized has been evicted
C12_Witness ==
    /\ max_projects >= 2
    /\ loaded_count = max_projects
    /\ \E cwd \in manifests : ~Contains(projects, cwd)

\* a daemon past acquire_pid_lock that has not exited
Holds(d) == daemon[d] \in {"locked", "serving", "failed", "stopped", "panicked"}

\* C13 -- single instance: over every interleaving of daemon starts at most
\* one daemon is past acquire_pid_lock for one pid_file, and a start that
\* reads the PID of a live process in the PID file is refused.
C13_SingleInstance ==
    \A d, e \in Daemons : Holds(d) /\ Holds(e) => d = e

\* C14 -- release on all exit paths: once a daemon has exited (shutdown,
\* failure to create the IPC server, drop after a panic) neither the PID file
\* it wrote nor the socket file it bound exists.
C14_ReleaseOnExit ==
    \A d \in Daemons :
        daemon[d] = "exited" => /\ pid_file # File(d)
                                /\ socket_path # File(d)

\* the handler answers task t
Answers(t) == hresp'[t] # hresp[t] /\ hresp'[t] # NoResponse

\* C15 -- fire-and-forget: prepare_context, notify_file_change,
\* graft_experience and shutdown are answered with Ack while the work they
\* spawn is still running, and the end of that work, failed or not, changes no
\* response.
C15_FireAndForget ==
    [][/\ \A t \in Tasks :
             Answers(t) /\ hresp'[t].request \in FireAndForget
             => /\ hresp'[t].response = "Ack"
                /\ SubSeq(spawned', 1, Len(spawned)) = spawned
                /\ \A i \in DOMAIN spawned' : i > Len(spawned) =>
                       spawned'[i] = [work |-> hresp'[t].request, result |-> "running"]
                /\ hresp'[t].request # "notify_file_change" => Len(spawned') = Len(spawned) + 1
       /\ spawned' # spawned /\ Len(spawned') = Len(spawned) => hresp' = hresp]_vars

\* graft_experience was acknowledged and its spawned work has failed
C15_Witness ==
    \E t \in Tasks, i \in DOMAIN spawned :
        /\ hresp[t] = [request |-> "graft_experience", response |-> "Ack"]
        /\ spawned[i] = [work |-> "graft_experience", result |-> "error"]

\* C16 -- init gate: while the project is not initialized every get_context,
\* memory_put, memory_patch, memory_delete, memory_get, memory_list and
\* memory_sync request is answered with Error{NotInitialized}, and no step
\* changes the memory store of the project: its index, its gate and the
\* operations in progress; the log file is written by nothing but the work
\* spawned for graft_experience, which is not gated.
C16_InitGate ==
    [][~is_initialized(1) =>
          /\ \A t \in Tasks : Answers(t) /\ hresp'[t].request \in Gated
                                => /\ hresp'[t].response = "NotInitialized"
                                   /\ UNCHANGED <<log0, log, durable>>
          /\ UNCHANGED <<index, gate, pc, req, written, resp, uuids>>
          /\ log' # log => spawned' # spawned]_vars

\* memory_put was answered NotInitialized, and after init_project the other
\* task has put an entry
C16_Witness ==
    \E t \in Tasks :
        /\ hresp[t] = [request |-> "memory_put", response |-> "NotInitialized"]
        /\ is_initialized(1)
        /\ index.entries # <<>>

\* C17 as stated -- one request per connection: the handler is invoked at
\* most once, exactly one response frame is written for every request that
\* is read and parsed, the connection is then closed, and bytes sent after
\* the first frame are never dispatched.
C17_ExactlyOneResponse ==
    \A c \in DOMAIN conn :
        /\ conn[c].handled <= 1
        /\ conn[c].stage = "closed" /\ conn[c].handled = 1 => Len(conn[c].frames) = 1

\* C17 amended -- for each accepted connection the handler is invoked at most
\* once and only for a request that was read and parsed; at most one response
\* frame is written, and exactly one, the handler's response, when
\* handle_connection returns Ok; when write_response fails no frame is
\* written and the connection is closed with the I/O error; a closed
\* connection is never read again, so bytes after the first frame are never
\* dispatched.
C17_OneRequestPerConnection ==
    \A c \in DOMAIN conn :
        /\ conn[c].handled <= 1
        /\ Len(conn[c].frames) <= 1
        /\ conn[c].handled = 1 => conn[c].body_read /\ conn[c].parses
        /\ conn[c].stage = "closed" /\ conn[c].handled = 1 =>
              \/ conn[c].result = "Ok" /\ conn[c].frames = <<hresp[c].response>>
              \/ conn[c].result = "Io" /\ conn[c].frames = <<>>
        /\ conn[c].result = "Ok" => conn[c].stage = "closed" /\ conn[c].handled = 1

\* a client that sent more bytes after its frame got one response and the
\* connection is closed
C17_Witness ==
    \E c \in DOMAIN conn :
        /\ conn[c].extra /\ conn[c].stage = "closed" /\ conn[c].result = "Ok"
        /\ conn[c].handled = 1 /\ conn[c].frames = <<"Ack">>

\* C18 as stated -- frame size limit: a length prefix above 1 MiB is rejected
\* with a RequestTooLarge error (the spec's request_too_large) without
\* reading the body and without invoking the handler.
C18_RejectedAsTooLarge ==
    \A c \in DOMAIN conn :
        conn[c].len > MAX_REQUEST_SIZE /\ conn[c].frames # <<>>
        => conn[c].frames = <<"RequestTooLarge">>

\* C18 amended -- a length prefix above 1 MiB makes read_request return
\* IpcError::RequestTooLarge before the body is read, and the handler is not
\* invoked; the frame written to the client is Error{InvalidRequest} (the
\* protocol has no RequestTooLarge code), and handle_connection returns
\* RequestTooLarge, or the I/O error when that frame cannot be written.  A
\* frame of exactly 1 MiB is never rejected as too large: once it is complete
\* its body is read, and it is dispatched when it parses.
C18_FrameSizeLimit ==
    \A c \in DOMAIN conn :
        /\ conn[c].len > MAX_REQUEST_SIZE =>
              /\ ~conn[c].body_read /\ conn[c].handled = 0
              /\ conn[c].frames \in {<<>>, <<"InvalidRequest">>}
              /\ conn[c].result = "RequestTooLarge" => conn[c].frames = <<"InvalidRequest">>
              /\ conn[c].arrived # "none" =>
                    /\ conn[c].result \in {"none", "RequestTooLarge", "Io"}
                    /\ conn[c].result \in {"none", "Io"} => conn[c].frames = <<>>
                    /\ conn[c].stage \in {"reading", "closed"}
                    /\ conn[c].stage = "closed" => conn[c].result # "none"
        /\ conn[c].len = MAX_REQUEST_SIZE =>
              /\ conn[c].result # "RequestTooLarge"
              /\ conn[c].arrived = "frame" /\ conn[c].stage # "reading"
                 => /\ conn[c].body_read
                    /\ conn[c].parses /\ conn[c].stage = "closed" => conn[c].handled = 1

\* one connection was rejected for a prefix of 1 MiB + 1, another was served
\* a frame of exactly 1 MiB
C18_Witness ==
    \E c, d \in DOMAIN conn :
        /\ conn[c].len = MAX_REQUEST_SIZE + 1 /\ conn[c].result = "RequestTooLarge"
        /\ conn[c].frames = <<"InvalidRequest">>
        /\ conn[d].len = MAX_REQUEST_SIZE /\ conn[d].handled = 1 /\ conn[d].result = "Ok"

\* C19 -- read timeout: when REQUEST_TIMEOUT has elapsed and the request
\* frame is not complete, the connection is closed with IpcError::Timeout, no
\* response is written and the handler is never invoked; the step that times
\* the connection out changes nothing but the connection.
C19_ReadTimeout ==
    [][\A c \in DOMAIN conn :
          /\ conn[c].stage = "reading" /\ conn'[c].elapsed >= REQUEST_TIMEOUT /\ ~Complete(c)
             => conn'[c].stage = "closed" /\ conn'[c].result = "Timeout"
          /\ conn'[c].result = "Timeout"
             => /\ conn'[c].stage = "closed" /\ conn'[c].handled = 0
                /\ conn'[c].frames = <<>> /\ ~conn'[c].body_read
                /\ conn[c].result # "Timeout" =>
                      UNCHANGED <<storeVars, pureVars, handlerVars, managerVars, daemonVars>>]_vars

\* a connection whose length prefix arrived but whose body did not has timed
\* out, while the other connection was served and its work changed the log
C19_Witness ==
    \E c, d \in DOMAIN conn :
        /\ conn[c].result = "Timeout" /\ conn[c].arrived = "prefix"
        /\ conn[d].handled = 1 /\ log # log0

\* C20 -- single writer per log file: every append to the project's log,
\* from put, patch or delete or from graft_experience, is made by a task that
\* holds the project's gate.
C20_SingleWriter ==
    [][log' # log => \E t \in Tasks : gate = t /\ pc[t] = "append"]_vars

\* C21 as stated -- gate order decides the index: when two puts of one id
\* run concurrently, both versions are appended to the log in gate order and,
\* once both have returned, the index holds the version of the put that held
\* the gate last.
C21_GateOrderDecides ==
    [][\A t, u \in Tasks :
          (/\ t # u
           /\ Returns(t, "put")
           /\ Acked(u) /\ req[u].action = "put" /\ req[u].id = req[t].id)
          => index'.entries[req[t].id] = written[t]]_vars

\* C21 amended -- each put appends its version as the last line of the log
\* while it holds the gate, so the lines are written in gate order; once both
\* puts have returned the index holds the greatest under compare_entries of
\* the two versions and of the entry it held before them: the version of the
\* put that held the gate last is installed only when it is not less than
\* the entry the earlier put left.
C21_GateOrderAppendsComparatorDecides ==
    [][\A t \in Tasks :
          /\ (pc[t] = "append" /\ pc'[t] = "apply" /\ req[t].action = "put") =>
                /\ gate = t /\ gate' = t
                /\ written'[t] = req[t].entry
                /\ Len(log') >= 1 /\ log'[Len(log')] = to_string(req[t].entry)
                /\ UNCHANGED index
          /\ Returns(t, "put") =>
                /\ gate = t /\ gate' = NoTask
                /\ UNCHANGED log
                /\ LET id == req[t].id
                   IN /\ id \in DOMAIN index'.entries
                      /\ \A other \in DOMAIN index.entries \ {id} :
                            other \in DOMAIN index'.entries
                            /\ index'.entries[other] = index.entries[other]
                      /\ IF id \notin DOMAIN index.entries
                         THEN index'.entries[id] = written[t]
                         ELSE IF compare_entries(written[t], index.entries[id]) = "Less"
                              THEN index'.entries[id] = index.entries[id]
                              ELSE index'.entries[id] = written[t]]_vars

\* two puts of one id have returned; the one that held the gate last wrote
\* the last line of the log, and the index holds the version of the other
C21_Witness ==
    \E t, u \in Tasks :
        /\ t # u /\ Acked(t) /\ Acked(u)
        /\ req[t].action = "put" /\ req[u].action = "put" /\ req[t].id = req[u].id
        /\ Len(log) >= 2
        /\ log[Len(log)] = to_string(written[t])
        /\ log[Len(log) - 1] = to_string(written[u])
        /\ compare_entries(written[t], written[u]) = "Less"
        /\ index.entries[req[t].id] = written[u]

\* the Shutdown arm has run: shutdown_tx.send(()) was called
ShutdownRequested == \E i \in DOMAIN spawned : spawned[i].work = "shutdown"

\* C22 -- shutdown race: once a shutdown request has been handled, every
\* request dispatched afterwards is answered Error{ShuttingDown} and starts
\* no new work: no store operation is entered and no task is spawned.
C22_ShuttingDownAfterShutdown ==
    [][ShutdownRequested =>
          \A t \in Tasks :
              /\ Answers(t) => hresp'[t].response = "ShuttingDown"
              /\ pc[t] = "idle" => pc'[t] = "idle"
              /\ Len(spawned') = Len(spawned)]_vars

\* what MemoryStore::list reads: the index after ensure_synced
list_synced == IF index.synced THEN index.entries ELSE rebuild_from_storage(log)

\* C23 -- list(project, limit) returns exactly non-deleted index entries,
\* sorted ascending by compare_entries, and of these the last
\* min(limit, live count): every live entry it leaves out is less than every
\* entry it returns; with limit 0 it returns the empty list; no tombstone is
\* ever in the result.
C23_ListLastLive ==
    \A limit \in (0..MaxOps) \cup {usize_MAX} :
        LET out == list(list_synced, limit)
            live == {list_synced[i] : i \in {j \in DOMAIN list_synced : ~list_synced[j].deleted}}
        IN /\ limit = 0 => out = <<>>
           /\ Len(out) = IF limit <= Cardinality(live) THEN limit ELSE Cardinality(live)
           /\ \A i \in 1..Len(out) : out[i] \in live /\ ~out[i].deleted
           /\ \A i, j \in 1..Len(out) : i < j => compare_entries(out[i], out[j]) = "Less"
           /\ \A e \in live :
                 (\A i \in 1..Len(out) : out[i] # e)
                 => \A i \in 1..Len(out) : compare_entries(e, out[i]) = "Less"
           /\ limit >= Cardinality(live) => {out[i] : i \in 1..Len(out)} = live

\* the index holds a tombstone and two live entries; list with limit 1
\* returns the greater of the two live ones and nothing else
C23_Witness ==
    /\ index.synced
    /\ \E i \in DOMAIN index.entries : index.entries[i].deleted
    /\ Len(list(index.entries, usize_MAX)) = 2
    /\ Len(list(index.entries, 1)) = 1
    /\ list(index.entries, 1)[1] = list(index.entries, usize_MAX)[2]
    /\ list(index.entries, 0) = <<>>

\* C24 -- initialization is persistent: once init_project(path) has
\* succeeded, is_initialized(path) is true in every later state, also for a
\* ProjectManager freshly constructed over the same data directory; neither
\* get_project, evict_lru, evict_all_except nor the eviction an insertion
\* into a full cache makes turns it false, and init_project of a path leaves
\* that path initialized.
C24_InitializationPersists ==
    [][/\ \A cwd \in Paths : is_initialized(cwd) => is_initialized(cwd)'
       /\ \A cwd \in Paths :
             (~Contains(projects, cwd) /\ Contains(projects', cwd)) => is_initialized(cwd)'
       /\ \A cwd \in Paths :
             (Contains(projects, cwd) /\ ~Contains(projects', cwd)) => is_initialized(cwd)']_vars

\* two projects were initialized; the cache holds neither of them any more
\* (evicted, or the manager is a new one) and both are still initialized
C24_Witness ==
    /\ projects = <<>>
    /\ \E cwd, other \in Paths : cwd # other /\ is_initialized(cwd) /\ is_initialized(other)

\* task t serializes the version of its patch or delete and appends it
Rewrites(t) ==
    /\ pc[t] = "append" /\ pc'[t] = "apply"
    /\ req[t].action \in {"patch", "delete"}

\* the updated_at candidate of the patch or delete of task t at time `now`
candidate_updated_at(t, now) ==
    IF req[t].action = "patch" /\ req[t].patch.updated_at.some
    THEN req[t].patch.updated_at.v
    ELSE now

\* C25 as stated -- patch and delete store updated_at = max(candidate,
\* current.updated_at + 1), which is strictly greater than the updated_at of
\* the predecessor for every 64-bit signed value of it, the maximum included.
C25_StrictlyGreater ==
    [][\A t \in Tasks :
          Rewrites(t) =>
              LET current == index.entries[req[t].id]
              IN /\ written'[t].updated_at > current.updated_at
                 /\ \E now \in Clock :
                       written'[t].updated_at =
                           IF candidate_updated_at(t, now) >= current.updated_at + 1
                           THEN candidate_updated_at(t, now)
                           ELSE current.updated_at + 1]_vars

\* C25 amended -- patch and delete store updated_at = max(candidate,
\* current.updated_at.saturating_add(1)): strictly greater than the
\* updated_at of the predecessor for every predecessor below the maximum of
\* a 64-bit signed integer, and equal to it when the predecessor is at the
\* maximum, where the addition saturates.
C25_GreaterBelowMaximum ==
    [][\A t \in Tasks :
          Rewrites(t) =>
              LET current == index.entries[req[t].id]
                  successor == IF current.updated_at < I64_MAX
                               THEN current.updated_at + 1 ELSE I64_MAX
              IN /\ current.updated_at < I64_MAX =>
                       written'[t].updated_at > current.updated_at
                 /\ current.updated_at = I64_MAX =>
                       written'[t].updated_at = I64_MAX
                 /\ written'[t].updated_at <= I64_MAX
                 /\ \E now \in Clock :
                       written'[t].updated_at =
                           IF candidate_updated_at(t, now) >= successor
                           THEN candidate_updated_at(t, now)
                           ELSE successor]_vars

\* a delete of an entry whose updated_at is the maximum wrote a tombstone of
\* the same updated_at
C25_Witness ==
    \E t \in Tasks :
        /\ pc[t] = "apply" /\ req[t].action = "delete"
        /\ index.entries[req[t].id].updated_at = I64_MAX
        /\ ~index.entries[req[t].id].deleted
        /\ written[t].deleted /\ written[t].updated_at = I64_MAX

\* task t appends the version of its put
WritesPut(t) == pc[t] = "append" /\ pc'[t] = "apply" /\ req[t].action = "put"

\* C26 as stated -- rewrite rule on put: a put whose updated_at is less than
\* or equal to the updated_at of the predecessor of its id writes a version
\* whose updated_at is the predecessor's plus one.
C26_PutRewritesUpdatedAt ==
    [][\A t \in Tasks :
          (/\ WritesPut(t)
           /\ req[t].id \in DOMAIN index.entries
           /\ req[t].entry.updated_at <= index.entries[req[t].id].updated_at)
          => written'[t].updated_at = index.entries[req[t].id].updated_at + 1]_vars

\* C26 amended -- put never rewrites updated_at: the version it writes
\* carries the updated_at it was given when that is positive and the current
\* time otherwise, also when this is less than or equal to the updated_at of
\* the predecessor; such a version is in the log, and the index takes it only
\* if it is not less than the predecessor under compare_entries, so put
\* returns the predecessor when the version is less.
C26_PutKeepsUpdatedAt ==
    [][\A t \in Tasks :
          /\ WritesPut(t) =>
                /\ req[t].given.updated_at > 0 =>
                      written'[t].updated_at = req[t].given.updated_at
                /\ req[t].given.updated_at <= 0 => written'[t].updated_at \in Clock
                /\ log'[Len(log')] = to_string(written'[t])
          /\ (/\ Returns(t, "put")
              /\ req[t].id \in DOMAIN index.entries
              /\ written[t].updated_at <= index.entries[req[t].id].updated_at) =>
                LET predecessor == index.entries[req[t].id]
                IN /\ written[t].updated_at = req[t].entry.updated_at
                   /\ index'.entries[req[t].id].updated_at = predecessor.updated_at
                   /\ written[t].updated_at < predecessor.updated_at =>
                         index'.entries[req[t].id] = predecessor
                   /\ resp'[t].entry = index'.entries[req[t].id]]_vars

\* a put of an updated_at below the predecessor's has returned: its line is
\* the last of the log with the updated_at it was given, the index still
\* holds the predecessor
C26_Witness ==
    \E t \in Tasks :
        /\ Acked(t) /\ req[t].action = "put"
        /\ Len(log) >= 1 /\ log[Len(log)] = to_string(written[t])
        /\ written[t].updated_at = req[t].given.updated_at
        /\ index.entries[req[t].id].updated_at > written[t].updated_at
        /\ resp[t].entry = index.entries[req[t].id]

\* C27 -- frame of patch and delete: the version a delete writes equals its
\* predecessor in every field except deleted and updated_at; the version a
\* patch writes differs from its predecessor only in the fields present in
\* the patch and in updated_at; id and created_at never change.
C27_Frame ==
    [][\A t \in Tasks :
          Rewrites(t) =>
              LET current == index.entries[req[t].id]
                  version == written'[t]
                  patch == req[t].patch
              IN /\ version.id = current.id /\ version.id = req[t].id
                 /\ version.created_at = current.created_at
                 /\ req[t].action = "delete" =>
                       /\ version.deleted
                       /\ version.kind = current.kind
                       /\ version.content = current.content
                       /\ version.tags = current.tags
                       /\ version.session_id = current.session_id
                       /\ version.subagent_id = current.subagent_id
                 /\ req[t].action = "patch" =>
                       /\ ~patch.kind.some => version.kind = current.kind
                       /\ ~patch.content.some => version.content = current.content
                       /\ ~patch.tags.some => version.tags = current.tags
                       /\ ~patch.session_id.some => version.session_id = current.session_id
                       /\ ~patch.subagent_id.some => version.subagent_id = current.subagent_id
                       /\ ~patch.deleted.some => version.deleted = current.deleted
                       /\ patch.content.some => version.content = patch.content.v
                       /\ patch.deleted.some => version.deleted = patch.deleted.v]_vars

\* a patch of the content has returned and a delete has written its
\* tombstone: the tombstone carries the patched content, the kind, the id and
\* the created_at of the version the patch wrote
C27_Witness ==
    \E t, u \in Tasks :
        /\ t # u
        /\ Acked(u) /\ req[u].action = "patch" /\ req[u].patch.content.some
        /\ index.entries[req[u].id] = written[u] /\ ~written[u].deleted
        /\ pc[t] = "apply" /\ req[t].action = "delete" /\ req[t].id = req[u].id
        /\ written[t].deleted
        /\ written[t].content = written[u].content
        /\ written[t].updated_at > written[u].updated_at
        /\ written[t] = [written[u] EXCEPT !.deleted = TRUE, !.updated_at = written[t].updated_at]

\* task t holds the gate for a patch or delete of an id the index has no
\* version of, and takes its next step
Misses(t) ==
    /\ pc[t] = "append" /\ pc'[t] # "append"
    /\ req[t].action \in {"patch", "delete"}
    /\ req[t].id \notin DOMAIN index.entries

\* C28 -- not found: a patch or delete of an id with no version returns
\* not-found (Ok(None), which the handler surfaces as Error{InvalidRequest}),
\* appends nothing to the log and leaves the entry map of the index
\* unchanged; the replay the call makes under the gate on a store that was
\* not yet synced installs what the log holds and changes no answer.
C28_NotFound ==
    [][\A t \in Tasks :
          /\ Misses(t) =>
                /\ resp'[t].status = "not_found"
                /\ resp'[t].entry = NoEntry
                /\ memory_response(resp'[t].status) = "InvalidRequest"
                /\ pc'[t] = "idle" /\ gate' = NoTask
                /\ written'[t] = NoEntry
                /\ UNCHANGED <<log, durable, index>>
          /\ (Locks(t) /\ req[t].action \in {"patch", "delete"}) =>
                /\ UNCHANGED log
                /\ list_synced' = list_synced]_vars

\* a delete of an id the store holds no version of has returned not-found
\* on a store that holds another entry: the log and the index hold that
\* entry and nothing of the id
C28_Witness ==
    \E t \in Tasks :
        /\ pc[t] = "idle" /\ resp[t].status = "not_found" /\ req[t].action = "delete"
        /\ index.synced /\ req[t].id \notin DOMAIN index.entries
        /\ DOMAIN index.entries # {}
        /\ Len(log) >= 1
        /\ \A i \in MemoryLines(log) : from_str(log[i]).id # req[t].id

\* task t enters put, patch or delete
Calls(t) ==
    /\ pc[t] = "idle" /\ nops' = nops + 1
    /\ req'[t] # req[t] \/ resp'[t] # resp[t] \/ pc'[t] # pc[t]

\* the payloads C29 names
BlankEntry(r) ==
    r.action = "put" /\ (trim_is_empty(r.given.kind) \/ trim_is_empty(r.given.content))

BlankId(r) == r.action \in {"patch", "delete"} /\ trim_is_empty(r.id)

BadPatch(r) ==
    /\ r.action = "patch"
    /\ \/ \A f \in {"kind", "content", "tags", "session_id", "subagent_id",
                    "deleted", "updated_at"} : ~r.patch[f].some
       \/ r.patch.kind.some /\ trim_is_empty(r.patch.kind.v)
       \/ r.patch.content.some /\ trim_is_empty(r.patch.content.v)

\* C29 -- invalid payloads are rejected before any I/O: a put with a blank
\* kind or content, a patch or delete with a blank id, and a patch with no
\* field or with a blank kind or content return the invalid-entry /
\* invalid-patch error without taking the gate, reading the log, appending
\* to it or changing the index.
C29_RejectedBeforeIO ==
    [][\A t \in Tasks :
          (Calls(t) /\ (BlankEntry(req'[t]) \/ BlankId(req'[t]) \/ BadPatch(req'[t]))) =>
              /\ resp'[t].status \in {"invalid_entry", "invalid_patch"}
              /\ BlankEntry(req'[t]) \/ BlankId(req'[t]) => resp'[t].status = "invalid_entry"
              /\ ~BlankId(req'[t]) /\ BadPatch(req'[t]) => resp'[t].status = "invalid_patch"
              /\ pc'[t] = "idle"
              /\ written'[t] = NoEntry
              /\ UNCHANGED <<log, durable, index, gate>>]_vars

\* a patch without a field was rejected on a store whose log holds a line,
\* while another task holds the gate
C29_Witness ==
    \E t, u \in Tasks :
        /\ t # u
        /\ pc[t] = "idle" /\ resp[t].status = "invalid_patch" /\ req[t].patch = EmptyPatch
        /\ pc[u] = "append" /\ gate = u
        /\ Len(log) >= 1

\* the ids of the parseable memory records of the log
LogIds == {from_str(log[i]).id : i \in MemoryLines(log)}

\* the greatest under compare_entries of the log records of an id
Greatest(id) ==
    CHOOSE r \in LogRecords(id) : \A s \in LogRecords(id) : is_ge(compare_entries(r, s))

\* C30 -- sync is idempotent and its stats are consistent: total is the
\* number of distinct ids among the parseable memory records of the log,
\* tombstones the number of ids whose greatest version under the comparator
\* is deleted, live = total - tombstones; the index sync installs and the
\* stats it returns depend on the log alone, so a second sync with no write
\* between returns the same stats and installs the same index; on an empty
\* log the index is empty.
C30_SyncStats ==
    [][\A t \in Tasks :
          (pc[t] = "gate" /\ pc'[t] = "idle" /\ req[t].action = "sync") =>
              LET stats == resp'[t].stats
                  dead == {id \in LogIds : Greatest(id).deleted}
              IN /\ resp'[t].status = "ok"
                 /\ UNCHANGED log
                 /\ stats.total_entries = Cardinality(LogIds)
                 /\ stats.tombstones = Cardinality(dead)
                 /\ stats.live_entries = stats.total_entries - stats.tombstones
                 /\ index'.synced
                 /\ DOMAIN index'.entries = LogIds
                 /\ \A id \in LogIds : index'.entries[id] = Greatest(id)
                 /\ Len(log) = 0 => index'.entries = EmptyMap
                 /\ (/\ index.synced
                     /\ DOMAIN index.entries = LogIds
                     /\ \A id \in LogIds : index.entries[id] = Greatest(id))
                    => /\ index' = index
                       /\ stats.total_entries = Cardinality(DOMAIN index.entries)
                       /\ stats.tombstones =
                             Cardinality({id \in DOMAIN index.entries : index.entries[id].deleted})]_vars

\* two syncs have returned the same stats over a log of two records of one
\* id, the greater of them a tombstone: total 1, live 0, tombstones 1
C30_Witness ==
    \E t, u \in Tasks :
        /\ t # u
        /\ pc[t] = "idle" /\ req[t].action = "sync" /\ resp[t].status = "ok"
        /\ pc[u] = "idle" /\ req[u].action = "sync" /\ resp[u].status = "ok"
        /\ resp[t].stats = resp[u].stats
        /\ resp[t].stats = [total_entries |-> 1, live_entries |-> 0, tombstones |-> 1]
        /\ Len(log) = 2 /\ Cardinality(LogIds) = 1
        /\ \A id \in LogIds : index.entries[id].deleted

\* C31 -- synced before first effect: no put, patch or delete appends to the
\* log or applies to the index while the synced flag of the project is
\* false; the lazy replay that sets the flag runs only in the step in which
\* a mutator holds the gate, installs what the log holds, and runs at most
\* once: the flag is never reset and a mutator that finds it set replays
\* nothing.
C31_SyncedBeforeEffect ==
    [][/\ \A t \in Tasks :
             /\ (pc[t] = "append" /\ pc'[t] # "append") => index.synced /\ gate = t
             /\ (pc[t] = "apply" /\ pc'[t] # "apply") => index.synced /\ gate = t
             /\ (Locks(t) /\ index.synced) => index' = index
             /\ (Locks(t) /\ ~index.synced) =>
                   /\ gate = NoTask /\ gate' = t
                   /\ index'.synced
                   /\ DOMAIN index'.entries = LogIds
                   /\ \A id \in LogIds : index'.entries[id] = Greatest(id)
                   /\ UNCHANGED log
       /\ index.synced => index'.synced
       /\ (~index.synced /\ index'.synced) => \E t \in Tasks :
             \/ Locks(t)
             \/ pc[t] = "gate" /\ pc'[t] = "idle" /\ req[t].action = "sync" /\ gate = NoTask
       /\ ~index.synced => index'.entries = index.entries \/ index'.synced]_vars

\* the first put on a store that found a line in its log has appended its
\* version: the index is synced and holds the entry of that line
C31_Witness ==
    \E t \in Tasks :
        /\ pc[t] = "apply" /\ req[t].action = "put"
        /\ nops = 1
        /\ Len(log0) = 1 /\ Len(log) = 2
        /\ index.synced
        /\ from_str(log0[1]).id \in DOMAIN index.entries
        /\ written[t].id \notin DOMAIN index.entries

\* C32 -- a failed replay does not poison the project: when reading the log
\* fails during sync or during the lazy replay of a mutator, the call returns
\* a Storage error, the entries and the synced flag of the index are as they
\* were, nothing is appended and the gate is free, so that a later call
\* replays again.
C32_FailedReplayLeavesProject ==
    [][\A t \in Tasks :
          (pc[t] = "gate" /\ pc'[t] = "idle" /\ resp'[t].status # "ok") =>
              /\ resp'[t].status = "storage_error"
              /\ index'.entries = index.entries
              /\ index'.synced = index.synced
              /\ gate' = NoTask
              /\ written'[t] = NoEntry
              /\ UNCHANGED <<log, durable>>]_vars

\* the replay of a put failed on a store never synced, and a later sync has
\* replayed the log and installed the entry it holds
C32_Witness ==
    \E t, u \in Tasks :
        /\ t # u
        /\ pc[t] = "idle" /\ resp[t].status = "storage_error" /\ req[t].action = "put"
        /\ pc[u] = "idle" /\ resp[u].status = "ok" /\ req[u].action = "sync"
        /\ nops = 2
        /\ index.synced /\ gate = NoTask
        /\ Len(log) = 1
        /\ DOMAIN index.entries = LogIds
        /\ resp[u].stats.total_entries = 1

\* the project path of the call in which task t takes a step
StepsOn(t, project_path) ==
    /\ pc'[t] # pc[t]
    /\ project_path = IF pc[t] = "idle" THEN project'[t].path ELSE project[t].path

\* the ProjectMemory of a project, if the store has allocated one
memory_of(project_path) ==
    IF project_hash(project_path) \in DOMAIN memories
    THEN arcs[memories[project_hash(project_path)]]
    ELSE ProjectMemory_default

C39_OneGatePerProject ==
    /\ [][\A hash \in DOMAIN memories :
             hash \in DOMAIN memories' /\ memories'[hash] = memories[hash]]_vars
    /\ [](/\ \A t \in Tasks :
                pc[t] \in {"gate", "append", "apply"} =>
                    /\ project_hash(project[t].path) \in DOMAIN memories
                    /\ memories[project_hash(project[t].path)] = project[t].arc
          /\ \A t, u \in Tasks :
                (/\ project[t].arc # 0 /\ project[u].arc # 0
                 /\ project[t].path = project[u].path) => project[t].arc = project[u].arc
          /\ \A g, h \in DOMAIN memories : memories[g] = memories[h] => g = h
          /\ Len(arcs) = Cardinality(DOMAIN memories)
          /\ \A t, u \in Tasks :
                (/\ t # u /\ pc[t] \in {"append", "apply"} /\ pc[u] \in {"append", "apply"})
                => project[t].path # project[u].path)

\* two first accesses to one project both missed the lookup; one of them has
\* inserted the ProjectMemory and holds its gate, the other is still to insert
C39_Witness ==
    \E t, u \in Tasks :
        /\ t # u
        /\ pc[t] = "insert" /\ pc[u] = "append"
        /\ project[t].path = project[u].path
        /\ nops = 2
        /\ Cardinality(DOMAIN memories) = 1
        /\ arcs[project[u].arc].gate = u

\* C38 -- a refused start leaves the lock: a daemon start that is refused
\* because the PID file names a live process leaves that PID file in place
\* and unchanged, in the refusal and when the refused Daemon value is
\* dropped, so that the running daemon keeps its lock.
C38_RefusedStartLeavesPidFile ==
    [][\A d \in Daemons :
          (/\ daemon'[d] # daemon[d]
           /\ daemon'[d] = "refused" \/ daemon[d] = "refused"
           /\ pid_file.exists /\ pid_file.pid # d /\ is_process_running(pid_file.pid))
          => pid_file' = pid_file]_vars

\* the keys of a cache
Keys(cache) == {cache[i] : i \in 1..Len(cache)}

\* the place of a key in an order, 1 for the first
PlaceIn(order, k) == CHOOSE i \in 1..Len(order) : order[i] = k

\* the cached key whose last use by a get_project hit or an insert is the
\* earliest
least_recently_used(cache) ==
    CHOOSE k \in Keys(cache) : \A other \in Keys(cache) : PlaceIn(recent, other) <= PlaceIn(recent, k)

\* task t ends an init_project or a get_project miss by inserting into the cache
Inserts(t) == outcome[t].result \in {"creating", "loading"} /\ outcome'[t].result = "Ok"

\* C34 -- LRU policy: inserting a new path into a full cache removes exactly
\* the least-recently-used entry, where recency is updated by every
\* get_project hit and every insert; a get_project hit and the re-insertion
\* of a path already in the cache make that path the most recently used one
\* and evict nothing.
C34_LruPolicy ==
    [][/\ \A t \in Tasks, cwd \in Paths :
             get_project(t, cwd) /\ Contains(projects, cwd)
             => /\ Keys(projects') = Keys(projects)
                /\ Len(projects') = Len(projects)
                /\ PlaceIn(recent', cwd) = 1
                /\ outcome'[t].result = "Ok"
       /\ \A t \in Tasks :
             Inserts(t)
             => LET cwd == outcome[t].cwd IN
                   /\ PlaceIn(recent', cwd) = 1
                   /\ Keys(projects') =
                         IF cwd \in Keys(projects) THEN Keys(projects)
                         ELSE IF Len(projects) >= capacity(max_projects)
                              THEN (Keys(projects) \ {least_recently_used(projects)}) \cup {cwd}
                              ELSE Keys(projects) \cup {cwd}
                   /\ Len(projects') = Cardinality(Keys(projects'))
       /\ \A i, j \in 1..Len(projects') :
             i < j <=> PlaceIn(recent', projects'[i]) < PlaceIn(recent', projects'[j])]_vars

\* a cache of capacity 2 was full, and init_project of a third path evicted
\* the path whose last use was the earliest and kept the other one
C34_Witness ==
    /\ capacity(max_projects) = 2 /\ Len(projects) = 2
    /\ \E t \in Tasks : outcome[t] = Outcome("init_project", projects[1], "Ok")
    /\ \E cwd \in manifests : ~Contains(projects, cwd) /\ recent = projects \o <<cwd>>

\* the number of entries the cache holds for a path
EntriesFor(cwd) == Cardinality({i \in 1..Len(projects) : projects[i] = cwd})

\* C35 -- concurrent get_project calls for the same uncached, initialized
\* path all return a handle for that project: a call that missed the cache
\* and is loading the project can only end with Ok for the path it was
\* called with, whatever the other calls do meanwhile (a manager that is
\* replaced by a new one ends its calls without a result); when it ends the
\* cache holds exactly one entry for that path, and in every state the cache
\* holds no path twice and loaded_count is within the capacity.
C35_ConcurrentGetProject ==
    /\ [][\A t \in Tasks :
             outcome[t].result = "loading" /\ outcome'[t] # outcome[t] /\ projects' # <<>>
             => /\ outcome'[t] = Outcome("get_project", outcome[t].cwd, "Ok")
                /\ outcome[t].cwd = loading[t]
                /\ Len(SelectSeq(projects', LAMBDA k : k = outcome[t].cwd)) = 1]_vars
    /\ [](/\ \A cwd \in Paths : EntriesFor(cwd) <= 1
          /\ loaded_count <= capacity(max_projects)
          /\ \A t \in Tasks : loading[t] # NoPath
                              => outcome[t] = Outcome("get_project", loading[t], "loading"))

\* both tasks called get_project for the same initialized path while the
\* cache did not hold it: the first has returned its handle and the path is
\* cached once, the second is still loading the project
C35_Witness ==
    /\ outcome[1].op = "get_project" /\ outcome[1].result = "Ok"
    /\ loading[2] = outcome[1].cwd
    /\ EntriesFor(outcome[1].cwd) = 1

\* how often save_manifest has written the manifest of a path
Saves(cwd) == IF cwd \in DOMAIN manifest_saves THEN manifest_saves[cwd] ELSE 0

\* the tasks whose init_project of a path returned Ok
Initializers(cwd) == {t \in Tasks : outcome[t] = Outcome("init_project", cwd, "Ok")}

\* C36 -- single-writer initialization: init_project on a path whose
\* manifest already exists fails with AlreadyInitialized and does not
\* rewrite the manifest; when several init_project calls for the same path
\* run concurrently, at most one returns success (the others fail with
\* AlreadyInitialized), so the manifest of a path is written at most once.
C36_SingleWriterInit ==
    /\ [][\A t \in Tasks, cwd \in Paths :
             init_project(t, cwd) /\ cwd \in manifests
             => /\ outcome'[t].result = "AlreadyInitialized"
                /\ manifests' = manifests /\ manifest_saves' = manifest_saves]_vars
    /\ [](\A cwd \in Paths : Cardinality(Initializers(cwd)) <= 1 /\ Saves(cwd) <= 1)

\* C37 -- an init_project request for a project that is already initialized
\* is answered with Error{InvalidRequest}, and the existing manifest, the
\* cache, the log and the index are left unchanged.
C37_DoubleInitInvalidRequest ==
    [][\A t \in Tasks, cwd \in Paths :
          init_project(t, cwd) /\ is_initialized(cwd)
          => /\ hresp'[t] = [request |-> "init_project", response |-> "InvalidRequest"]
             /\ manifests' = manifests /\ manifest_saves' = manifest_saves
             /\ projects' = projects
             /\ log' = log /\ index' = index]_vars

\* the lines of a file that deserialize as MemoryEntry, in file order
Deserialized(lines) ==
    LET kept == SelectSeq(lines, from_str_ok) IN [j \in 1..Len(kept) |-> from_str(kept[j])]

\* the last n elements of a sequence
LastN(s, n) == IF n >= Len(s) THEN s ELSE SubSeq(s, Len(s) - n + 1, Len(s))

\* C40 -- mixed-schema reads: read_recent(limit) returns, in file order, the
\* last min(limit, k) lines that deserialize under the requested schema,
\* where k is the number of such lines; lines that fail that schema are
\* skipped, never make the read fail (it fails only when read_to_string
\* does) and do not count toward the limit; limit = 0 or a missing file give
\* the empty list.
C40_MixedSchemaReads ==
    ret.done
    => /\ ret.result = "Err" <=> (args.io_error /\ args.limit # 0 /\ args.file.exists)
       /\ ret.result = "Ok" => ret.entries = LastN(Deserialized(args.file.lines), args.limit)
       /\ args.limit = 0 \/ ~args.file.exists => ret.result = "Ok" /\ ret.entries = <<>>
       /\ Len(ret.entries) <= args.limit

\* a file of two memory records followed by a line of another schema, read
\* with limit 1: the line is skipped and the second record is returned
C40_Witness ==
    /\ ret.done /\ ret.result = "Ok" /\ args.limit = 1
    /\ Len(args.file.lines) = 3
    /\ from_str_ok(args.file.lines[1]) /\ from_str_ok(args.file.lines[2])
    /\ ~from_str_ok(args.file.lines[3])
    /\ ret.entries = <<from_str(args.file.lines[2])>>

\* C1 -- replay equivalence: whenever no write is in flight, a fresh store
\* synced from the log holds exactly the id -> entry map of the store's index.
C1_ReplayEquivalence ==
    (index.synced /\ Idle) => rebuild_from_storage(log) = index.entries

\* C2 -- ACK implies durable: at the step that answers a put, patch or delete
\* with success, the version it serialized lies in the log file under a
\* completed sync_all and has been applied to the index, so that a reader of
\* the file finds it.
C2_AckImpliesDurable ==
    [][\A t \in Tasks :
          (Returns(t, "put") \/ Returns(t, "patch") \/ Returns(t, "delete")) =>
              /\ \E i \in 1..Len(log') : i <= durable' /\ log'[i] = to_string(written[t])
              /\ written[t].id \in DOMAIN index'.entries
              /\ is_ge(compare_entries(index'.entries[written[t].id], written[t]))]_vars

\* C3 -- the log is append-only: every line the file holds is still returned
\* by a scan of the file after any further step.
C3_NoLineLost ==
    [][\A i \in 1..Len(log) : \E j \in 1..Len(log') : log'[j] = log[i]]_vars

Replaced(id) ==
    /\ id \in DOMAIN index.entries /\ id \in DOMAIN index'.entries
    /\ index'.entries[id] # index.entries[id]

SyncStep == \E t \in Tasks : pc[t] = "gate" /\ pc'[t] = "idle" /\ req[t].action = "sync"

C5_ContentionWinner ==
    \A id \in DOMAIN index.entries :
        (/\ Idle
         /\ \A t \in Tasks : req[t].action = "put" /\ resp[t].status = "ok" /\ req[t].id = id)
        => /\ index.entries[id] \in LogRecords(id)
           /\ \A r \in LogRecords(id) :
                 /\ r.updated_at <= index.entries[id].updated_at
                 /\ is_ge(compare_entries(index.entries[id], r))

\* C6 -- no loss: on a log that was empty, when all N requests started were
\* puts of live entries with pairwise distinct ids and have returned success,
\* the log holds exactly N records and the index (and list) exactly those N.
C6_NoLoss ==
    (/\ log0 = <<>>
     /\ Idle
     /\ nops > 0
     /\ Cardinality(DOMAIN index.entries) = nops
     /\ \A t \in Tasks : req[t].action \in {"put", "none"})
    => /\ Len(log) = nops
       /\ \A i \in 1..Len(log) :
             /\ from_str_ok(log[i])
             /\ get(index.entries, from_str(log[i]).id) = from_str(log[i])
       /\ Len(list(index.entries, nops)) = nops

ServerAssigned(given, stored) ==
    /\ stored.kind = given.kind /\ stored.content = given.content
    /\ stored.tags = given.tags /\ stored.deleted = given.deleted
    /\ stored.session_id = given.session_id /\ stored.subagent_id = given.subagent_id
    /\ (~trim_is_empty(given.id) => stored.id = given.id)
    /\ (given.created_at > 0 => stored.created_at = given.created_at)
    /\ (given.updated_at > 0 => stored.updated_at = given.updated_at)
    /\ validate_entry(stored) = "ok"

\* C7 as stated -- round trip: when put(e) returns success for a live e,
\* get(e.id) returns e with the server-assigned fields filled, whatever
\* version of e.id the index held.
C7_PutGetRoundTrip ==
    [][\A t \in Tasks :
          (Returns(t, "put") /\ ~req[t].given.deleted) =>
              /\ ServerAssigned(req[t].given, written[t])
              /\ get(index'.entries, written[t].id) = written[t]]_vars

\* C7 amended -- when put(e) returns success for a live e, get(e.id) returns e
\* with the server-assigned fields filled if the index held no version of e.id
\* or e is strictly greater than that version under compare_entries;
\* otherwise the index keeps the version it held and get answers from it.
C7_PutGetLatestWins ==
    [][\A t \in Tasks :
          (Returns(t, "put") /\ ~req[t].given.deleted) =>
              /\ ServerAssigned(req[t].given, written[t])
              /\ IF written[t].id \notin DOMAIN index.entries
                    \/ compare_entries(get_latest(index.entries, written[t].id), written[t]) = "Less"
                 THEN /\ get(index'.entries, written[t].id) = written[t]
                      /\ resp'[t].entry = written[t]
                 ELSE /\ get(index'.entries, written[t].id) = get(index.entries, written[t].id)
                      /\ resp'[t].entry = index.entries[written[t].id]]_vars

\* a put over an older version of its id has returned and get gives its entry
C7_Witness ==
    \E t \in Tasks :
        /\ Acked(t) /\ req[t].action = "put"
        /\ index.synced
        /\ get(index.entries, written[t].id) = written[t]
        /\ resp[t].entry = written[t]
        /\ \E i \in MemoryLines(log) :
              /\ from_str(log[i]).id = written[t].id
              /\ compare_entries(from_str(log[i]), written[t]) = "Less"

RevivingPatch(patch) == patch.deleted.some /\ ~patch.deleted.v

\* C8 -- tombstone persistence: when no write is in flight and the version a
\* successful delete(id), or a successful patch of id that does not set
\* deleted=false and was applied to a tombstone, returned is still the latest
\* version of id in the index, then get(id) is absent, list omits id,
\* get_latest(id) is deleted, and a fresh store that replays the log finds
\* that same tombstone as the latest version of id.
C8_TombstonePersists ==
    \A t \in Tasks :
        (/\ Idle /\ index.synced
         /\ Acked(t)
         /\ \/ req[t].action = "delete"
            \/ /\ req[t].action = "patch"
               /\ ~RevivingPatch(req[t].patch)
               /\ written[t].deleted
         /\ get_latest(index.entries, req[t].id) = resp[t].entry)
        => /\ get(index.entries, req[t].id) = NoEntry
           /\ \A k \in 1..Len(list(index.entries, usize_MAX)) :
                 list(index.entries, usize_MAX)[k].id # req[t].id
           /\ get_latest(index.entries, req[t].id).deleted
           /\ get_latest(rebuild_from_storage(log), req[t].id) = resp[t].entry

Flip(o) == IF o = "Less" THEN "Greater" ELSE IF o = "Greater" THEN "Less" ELSE "Equal"

\* C9 -- comparator totality: compare_entries is antisymmetric, transitive
\* and total, and answers Equal only for entries that agree on every field.
C9_TotalOrder ==
    ret.done =>
        /\ ret.xy \in {"Less", "Equal", "Greater"}
        /\ ret.yx = Flip(ret.xy)
        /\ (ret.xy = "Equal") <=> (args.x = args.y)
        /\ (ret.xy # "Greater" /\ ret.yz # "Greater") => ret.xz # "Greater"
        /\ (ret.xy = "Less" /\ ret.yz # "Greater") => ret.xz = "Less"
        /\ (ret.xy # "Greater" /\ ret.yz = "Less") => ret.xz = "Less"

\* two entries that differ in the last key only have been compared
C9_Witness ==
    /\ ret.done
    /\ args.x.subagent_id # args.y.subagent_id
    /\ [args.x EXCEPT !.subagent_id = None] = [args.y EXCEPT !.subagent_id = None]
    /\ ret.xy = "Less" /\ ret.yx = "Greater"

\* C10 -- log-order independence: a replica holding the same records in
\* another line order, or with a record duplicated, replays to the same
\* id -> entry map and gives the same list output.
C10_OrderIndependent ==
    ret.done =>
        /\ ret.first = ret.second
        /\ ret.list_first = ret.list_second
        /\ ret.tail_first = ret.tail_second

\* a reordered replica with two versions that tie on id and updated_at
C10_Witness ==
    /\ ret.done
    /\ args.replica # args.log
    /\ Len(args.replica) > Len(args.log)
    /\ \E i, j \in MemoryLines(args.log) :
          /\ i < j
          /\ from_str(args.log[i]).id = from_str(args.log[j]).id
          /\ from_str(args.log[i]).updated_at = from_str(args.log[j]).updated_at
          /\ compare_entries(from_str(args.log[i]), from_str(args.log[j])) = "Greater"
          /\ \E k, l \in 1..Len(args.replica) :
                k < l /\ args.replica[k] = args.log[j] /\ args.replica[l] = args.log[i]
    /\ Len(ret.list_first) > 0

====
